---------------------------- MODULE Spec2Model ----------------------------
(***************************************************************************)
(* Model of the technical indicator engine of stock-surge                  *)
(* (src/backend/app/stocks/technical_indicators.py).                       *)
(*                                                                         *)
(* A pandas float is modelled as a pair <<n, d>>: d > 0 is the rational    *)
(* n/d in lowest terms, <<0,0>> is NaN, <<1,0>> is +inf and <<-1,0>> is    *)
(* -inf.  Python's None is the empty tuple <<>> for an Optional[float] and *)
(* the string "None" for an optional label.  Prices and volumes are        *)
(* integers, so every rolling sum is exact, as it is in IEEE doubles for   *)
(* such inputs.  The exponential moving averages are recursive and are     *)
(* rounded to 1/Scale at every step (the model's float rounding); a        *)
(* standard deviation is rounded down to 1/(40 * 2^StdSteps) for w = 20.    *)
(***************************************************************************)
EXTENDS Integers, Sequences, FiniteSets, TLC

VARIABLES hist, out, now, prev, validator, tracker, reply, rows, requests,
          clock, token_file, server, managers, token_manager, schwab_client, threads,
          script, started, provider, calls

vars == <<hist, out, now, prev, validator, tracker, reply, rows, requests,
          clock, token_file, server, managers, token_manager, schwab_client, threads,
          script, started, provider, calls>>

\* the variables of each part of the program, and the variables outside it
engineVars == <<hist, out, now, prev>>
redditVars == <<validator, tracker, reply>>
watchlistVars == <<rows, requests>>
schwabVars == <<clock, token_file, server, managers, token_manager, schwab_client, threads,
               script, started>>
executorVars == <<provider, calls>>
outsideEngine == <<redditVars, watchlistVars, schwabVars, executorVars>>
outsideReddit == <<engineVars, watchlistVars, schwabVars, executorVars>>
outsideWatchlist == <<engineVars, redditVars, schwabVars, executorVars>>
outsideSchwab == <<engineVars, redditVars, watchlistVars, executorVars>>
outsideExecutor == <<engineVars, redditVars, watchlistVars, schwabVars>>

(***************************************************************************)
(* Bounds of the model.                                                    *)
(***************************************************************************)
MaxShort == 31
MaxTail == 1
MaxClock == 1

(***************************************************************************)
(* The state after construction of the parts outside the indicator engine. *)
(* A cache (a Python set of symbols) is the set of the symbols the model   *)
(* names and the number of other symbols it holds.                         *)
(***************************************************************************)
EmptyCache == [named |-> {}, others |-> 0]

\* TickerValidator.__init__
ValidatorNew == [valid_cache |-> EmptyCache, invalid_cache |-> EmptyCache]

\* RedditStockTracker.__init__: no mention, no processed id, no statistics
NoStats == [t \in {} |-> 0]
TrackerNew == [mentions |-> <<>>, processed_ids |-> {}, ticker_stats |-> NoStats]

NoReply == [op |-> "none"]

RedditNew ==
    /\ validator = ValidatorNew
    /\ tracker = TrackerNew
    /\ reply = NoReply

\* the watchlists table of a new database, no request received
WatchlistNew ==
    /\ rows = {}
    /\ requests = <<>>

\* _tokens of a manager that has loaded nothing, and the token file that
\* does not exist
NoTokens == [access_token |-> 0, expires_in |-> 0]

\* the token file that open(path, "w") has emptied and no json.dump has
\* written since
Truncated == [access_token |-> -1, expires_in |-> 0]

\* the token file after a writer has dumped a shorter document over the
\* longer one another writer has dumped since the first opened the file: a
\* document followed by the tail of the other, on which json.load raises
Garbled == [access_token |-> -2, expires_in |-> 0]

\* get_refresh_token.py not running
ScriptIdle == [pc |-> "idle", refresh_token_dict |-> NoTokens]

\* no token issued, no TokenManager and no SchwabClient created, no thread,
\* get_refresh_token.py not running, no call or run started
SchwabNew ==
    /\ clock = 0
    /\ token_file = NoTokens
    /\ server = <<>>
    /\ managers = <<>>
    /\ token_manager = 0
    /\ schwab_client = 0
    /\ threads = <<>>
    /\ script = ScriptIdle
    /\ started = 0

\* no call of the engine submitted to the executor
ExecutorNew ==
    /\ provider = <<>>
    /\ calls = <<>>

OutsideEngineNew == RedditNew /\ WatchlistNew /\ SchwabNew /\ ExecutorNew

(***************************************************************************)
(* Float arithmetic.                                                       *)
(***************************************************************************)
None == <<>>
NoneStr == "None"
NaN == <<0, 0>>

Abs(x) == IF x < 0 THEN -x ELSE x
Sign(x) == IF x < 0 THEN -1 ELSE IF x > 0 THEN 1 ELSE 0

RECURSIVE Gcd(_, _)
Gcd(a, b) == IF b = 0 THEN a ELSE Gcd(b, a % b)

Norm(n, d) ==
    LET g == Gcd(Abs(n), d)
    IN  <<n \div g, d \div g>>

Float(n) == <<n, 1>>
Zero == Float(0)
IsNone(x) == Len(x) = 0
IsNaN(x) == x[1] = 0 /\ x[2] = 0
IsInf(x) == x[1] # 0 /\ x[2] = 0
IsFinite(x) == x[2] > 0

FNeg(a) == <<-a[1], a[2]>>

FAdd(a, b) ==
    IF IsNaN(a) \/ IsNaN(b) THEN NaN
    ELSE IF IsInf(a) THEN (IF IsInf(b) /\ a[1] # b[1] THEN NaN ELSE a)
    ELSE IF IsInf(b) THEN b
    ELSE LET g == Gcd(a[2], b[2])
             l == (a[2] \div g) * b[2]
         IN  Norm(a[1] * (l \div a[2]) + b[1] * (l \div b[2]), l)

FSub(a, b) == FAdd(a, FNeg(b))

FMul(a, b) ==
    IF IsNaN(a) \/ IsNaN(b) THEN NaN
    ELSE IF IsInf(a) \/ IsInf(b)
         THEN (IF a[1] = 0 \/ b[1] = 0 THEN NaN ELSE <<Sign(a[1]) * Sign(b[1]), 0>>)
    ELSE LET g1 == Gcd(Abs(a[1]), b[2])
             g2 == Gcd(Abs(b[1]), a[2])
         IN  Norm((a[1] \div g1) * (b[1] \div g2), (a[2] \div g2) * (b[2] \div g1))

\* IEEE division, as numpy divides two float64 series: x/0 is +-inf, 0/0 is NaN.
FDiv(a, b) ==
    IF IsNaN(a) \/ IsNaN(b) THEN NaN
    ELSE IF IsInf(a) THEN (IF IsInf(b) THEN NaN
                           ELSE <<a[1] * (IF b[1] < 0 THEN -1 ELSE 1), 0>>)
    ELSE IF IsInf(b) THEN Zero
    ELSE IF b[1] = 0 THEN (IF a[1] = 0 THEN NaN ELSE <<Sign(a[1]), 0>>)
    ELSE LET g1 == Gcd(Abs(a[1]), Abs(b[1]))
             g2 == Gcd(a[2], b[2])
         IN  Norm(Sign(b[1]) * (a[1] \div g1) * (b[2] \div g2),
                  (a[2] \div g2) * (Abs(b[1]) \div g1))

\* a < b on floats; every comparison with NaN is False.
FLt(a, b) ==
    IF IsNaN(a) \/ IsNaN(b) THEN FALSE
    ELSE IF IsInf(a) THEN a[1] < 0 /\ b # a
    ELSE IF IsInf(b) THEN b[1] > 0
    ELSE LET g == Gcd(a[2], b[2])
         IN  a[1] * (b[2] \div g) < b[1] * (a[2] \div g)

FGt(a, b) == FLt(b, a)

\* float(x) if not pd.isna(x) else None
OrNone(x) == IF IsNaN(x) THEN None ELSE x

\* Python truthiness of an Optional[float]: None and 0.0 are falsy.
Truthy(x) == ~IsNone(x) /\ ~(IsFinite(x) /\ x[1] = 0)

RECURSIVE SumRange(_, _, _)
SumRange(s, lo, hi) ==
    IF lo > hi THEN 0
    ELSE IF lo = hi THEN s[lo]
    ELSE LET mid == (lo + hi) \div 2
         IN  SumRange(s, lo, mid) + SumRange(s, mid + 1, hi)

RECURSIVE MinRange(_, _, _)
MinRange(s, lo, hi) ==
    IF lo = hi THEN s[hi]
    ELSE LET m == MinRange(s, lo, hi - 1) IN IF s[hi] < m THEN s[hi] ELSE m

RECURSIVE MaxRange(_, _, _)
MaxRange(s, lo, hi) ==
    IF lo = hi THEN s[hi]
    ELSE LET m == MaxRange(s, lo, hi - 1) IN IF s[hi] > m THEN s[hi] ELSE m

Max2(a, b) == IF a > b THEN a ELSE b

RoundDiv(n, d) == (2 * n + d) \div (2 * d)

RECURSIVE IsqrtBetween(_, _, _)
IsqrtBetween(n, lo, hi) ==
    IF lo >= hi THEN lo
    ELSE LET mid == (lo + hi + 1) \div 2
         IN  IF mid * mid <= n THEN IsqrtBetween(n, mid, hi)
             ELSE IsqrtBetween(n, lo, mid - 1)

\* floor of the square root of n, 0 <= n < 2^31
Isqrt(n) == IsqrtBetween(n, 0, 46340)

(***************************************************************************)
(* Parameters of the calculators (the defaults of their signatures).       *)
(***************************************************************************)
RsiPeriod == 14
MacdFast == 12
MacdSlow == 26
MacdSignal == 9
BollingerPeriod == 20
BollingerStdDev == 2
KPeriod == 14
DPeriod == 3
AtrPeriod == 14

\* Resolution of the rounded (recursive or irrational) float results: an
\* exponential average is rounded to 1/Scale, a standard deviation of w
\* values is rounded down to 1/(2 * w * 2^StdSteps).
Scale == 100000
StdSteps == 11

(***************************************************************************)
(* The columns of a price history (a DataFrame of OHLCV bars).             *)
(***************************************************************************)
Column(h, c) == [i \in 1..Len(h) |-> h[i][c]]

(***************************************************************************)
(* Rolling statistics primitives: the value at the last row of             *)
(* s.rolling(window=w).<stat>().  s holds no NaN.                          *)
(***************************************************************************)
\* RollingMeanLast with min_periods=1: the mean of the values there are.
RollingMeanLastMinPeriods1(s, w) ==
    IF Len(s) = 0 THEN NaN
    ELSE IF Len(s) < w THEN Norm(SumRange(s, 1, Len(s)), Len(s))
    ELSE Norm(SumRange(s, Len(s) - w + 1, Len(s)), w)

RollingMeanLast(s, w) ==
    IF Len(s) < w THEN NaN
    ELSE Norm(SumRange(s, Len(s) - w + 1, Len(s)), w)

RECURSIVE Pow2(_)
Pow2(k) == IF k = 0 THEN 1 ELSE 2 * Pow2(k - 1)

\* <<floor(2^(j + steps) * sqrt(n/d)), remainder>> from a = floor(2^j *
\* sqrt(n/d)) and the remainder r = 4^j * n - a * a * d, one binary digit at
\* a time
RECURSIVE SqrtDigits(_, _, _, _)
SqrtDigits(a, r, d, steps) ==
    IF steps = 0 THEN <<a, r>>
    ELSE IF (4 * a + 1) * d <= 4 * r
         THEN SqrtDigits(2 * a + 1, 4 * r - (4 * a + 1) * d, d, steps - 1)
    ELSE SqrtDigits(2 * a, 4 * r, d, steps - 1)

\* floor(2^steps * sqrt(n/d)), d > 0
SqrtFloor(n, d, steps) ==
    LET a == Isqrt(n \div d)
    IN  SqrtDigits(a, n - a * a * d, d, steps)[1]

\* 2^steps * sqrt(n/d) is an integer
SqrtExact(n, d, steps) ==
    LET a == Isqrt(n \div d)
    IN  SqrtDigits(a, n - a * a * d, d, steps)[2] = 0

\* The direction in which the float arithmetic of the online variance
\* (pandas' add_var and remove_var, driven by every bar from the start of
\* the series) has moved a rolling standard deviation off its exact value.
Roundings == {-1, 0, 1}

\* sample standard deviation (N-1 denominator) of the last w values, on the
\* grid of the multiples of 1/(2 * w * 2^StdSteps).  For integer values x the
\* grid holds every (x - mean)/2, so x compares with mean +- 2 * std as it
\* does for the exact standard deviation whenever that lies off the grid, and
\* the result is then the exact value rounded down.  An exact value on the
\* grid is where a band can tie with a price or with zero and the rounding
\* error of the code decides: the result is one step off in the direction
\* of rounding.  A window of equal values has variance 0 without error
\* (num_consecutive_same_value).
RollingStdLast(s, w, rounding) ==
    IF Len(s) < w THEN NaN
    ELSE LET n == Len(s)
             dev == [i \in 1..w |-> s[n - w + i] - s[n]]
             sq == [i \in 1..w |-> dev[i] * dev[i]]
             v == w * SumRange(sq, 1, w) - SumRange(dev, 1, w) * SumRange(dev, 1, w)
             shown == v > 0 /\ SqrtExact(4 * w * v, w - 1, StdSteps)
         IN  Norm(SqrtFloor(4 * w * v, w - 1, StdSteps) + (IF shown THEN rounding ELSE 0),
                  2 * w * Pow2(StdSteps))

\* y[lo..hi] of the recurrence below, given y0 = y[lo - 1]; the range is
\* halved so that the evaluation depth stays logarithmic in the length.
RECURSIVE EwmFrom(_, _, _, _, _)
EwmFrom(s, span, lo, hi, y0) ==
    IF lo > hi THEN <<>>
    ELSE IF lo = hi THEN <<RoundDiv(2 * s[lo] + (span - 1) * y0, span + 1)>>
    ELSE LET mid == (lo + hi) \div 2
             left == EwmFrom(s, span, lo, mid, y0)
         IN  left \o EwmFrom(s, span, mid + 1, hi, left[Len(left)])

\* s.ewm(span=span, adjust=False).mean() on a series of fixed-point values:
\* y[1] = x[1], y[t] = alpha*x[t] + (1-alpha)*y[t-1] with alpha = 2/(span+1)
Ewm(s, span) ==
    IF Len(s) = 0 THEN <<>> ELSE <<s[1]>> \o EwmFrom(s, span, 2, Len(s), s[1])

Scaled(data) == [i \in 1..Len(data) |-> data[i] * Scale]
Fixed(v) == Norm(v, Scale)

(***************************************************************************)
(* The calculators.  Each body runs inside try/except Exception: a fault   *)
(* raised in the body (fault = TRUE: the column is malformed; or the       *)
(* IndexError of .iloc[-1] on an empty series) returns the all-None value. *)
(***************************************************************************)

\* delta.where(delta > 0, 0): the first delta is NaN, NaN > 0 is False, so 0.
Gains(data) ==
    [i \in 1..Len(data) |->
        IF i = 1 THEN 0
        ELSE IF data[i] - data[i - 1] > 0 THEN data[i] - data[i - 1] ELSE 0]

\* Losses without the negation: delta.where(delta < 0, 0)
LossesSigned(data) ==
    [i \in 1..Len(data) |->
        IF i = 1 THEN 0
        ELSE IF data[i] - data[i - 1] < 0 THEN data[i] - data[i - 1] ELSE 0]

\* -delta.where(delta < 0, 0)
Losses(data) ==
    [i \in 1..Len(data) |->
        IF i = 1 THEN 0
        ELSE IF data[i] - data[i - 1] < 0 THEN -(data[i] - data[i - 1]) ELSE 0]

CalculateRsi(data, fault) ==
    IF fault \/ Len(data) = 0 THEN None
    ELSE LET gain == RollingMeanLast(Gains(data), RsiPeriod)
             loss == RollingMeanLast(Losses(data), RsiPeriod)
             rs == FDiv(gain, loss)
             rsi == FSub(Float(100), FDiv(Float(100), FAdd(Float(1), rs)))
         IN  OrNone(rsi)

MacdNone == [macd |-> None, signal |-> None, histogram |-> None]

\* CalculateMacd with the histogram's operands swapped: signal - macd.
CalculateMacdHistogramSwapped(data, fault) ==
    IF fault \/ Len(data) = 0 THEN MacdNone
    ELSE LET n == Len(data)
             exp1 == Ewm(Scaled(data), MacdFast)
             exp2 == Ewm(Scaled(data), MacdSlow)
             macd == [i \in 1..n |-> exp1[i] - exp2[i]]
             signal_line == Ewm(macd, MacdSignal)
             histogram == signal_line[n] - macd[n]
         IN  [macd |-> OrNone(Fixed(macd[n])),
              signal |-> OrNone(Fixed(signal_line[n])),
              histogram |-> OrNone(Fixed(histogram))]

\* CalculateMacd with a len(data) >= slow guard, as calculate_ema has for its spans.
CalculateMacdGuarded(data, fault) ==
    IF fault \/ Len(data) < MacdSlow THEN MacdNone
    ELSE LET n == Len(data)
             exp1 == Ewm(Scaled(data), MacdFast)
             exp2 == Ewm(Scaled(data), MacdSlow)
             macd == [i \in 1..n |-> exp1[i] - exp2[i]]
             signal_line == Ewm(macd, MacdSignal)
             histogram == macd[n] - signal_line[n]
         IN  [macd |-> OrNone(Fixed(macd[n])),
              signal |-> OrNone(Fixed(signal_line[n])),
              histogram |-> OrNone(Fixed(histogram))]

CalculateMacd(data, fault) ==
    IF fault \/ Len(data) = 0 THEN MacdNone
    ELSE LET n == Len(data)
             exp1 == Ewm(Scaled(data), MacdFast)
             exp2 == Ewm(Scaled(data), MacdSlow)
             macd == [i \in 1..n |-> exp1[i] - exp2[i]]
             signal_line == Ewm(macd, MacdSignal)
             histogram == macd[n] - signal_line[n]
         IN  [macd |-> OrNone(Fixed(macd[n])),
              signal |-> OrNone(Fixed(signal_line[n])),
              histogram |-> OrNone(Fixed(histogram))]

SmaNone == [sma_20 |-> None, sma_50 |-> None, sma_100 |-> None, sma_200 |-> None]

CalculateMovingAverages(data, fault) ==
    IF fault THEN SmaNone
    ELSE [sma_20 |-> IF Len(data) >= 20 THEN RollingMeanLast(data, 20) ELSE None,
          sma_50 |-> IF Len(data) >= 50 THEN RollingMeanLast(data, 50) ELSE None,
          sma_100 |-> IF Len(data) >= 100 THEN RollingMeanLast(data, 100) ELSE None,
          sma_200 |-> IF Len(data) >= 200 THEN RollingMeanLast(data, 200) ELSE None]

EmaNone == [ema_12 |-> None, ema_26 |-> None, ema_50 |-> None]

EwmLast(data, span) == Fixed(Ewm(Scaled(data), span)[Len(data)])

\* CalculateEma without the len(data) >= span guards.
CalculateEmaUnguarded(data, fault) ==
    IF fault \/ Len(data) = 0 THEN EmaNone
    ELSE [ema_12 |-> EwmLast(data, 12),
          ema_26 |-> EwmLast(data, 26),
          ema_50 |-> EwmLast(data, 50)]

CalculateEma(data, fault) ==
    IF fault THEN EmaNone
    ELSE [ema_12 |-> IF Len(data) >= 12 THEN EwmLast(data, 12) ELSE None,
          ema_26 |-> IF Len(data) >= 26 THEN EwmLast(data, 26) ELSE None,
          ema_50 |-> IF Len(data) >= 50 THEN EwmLast(data, 50) ELSE None]

BollingerNone == [upper |-> None, middle |-> None, lower |-> None]

\* CalculateBollingerBands with the band offsets swapped.
CalculateBollingerBandsSwapped(data, fault, rounding) ==
    IF fault \/ Len(data) = 0 THEN BollingerNone
    ELSE LET sma == RollingMeanLast(data, BollingerPeriod)
             std == RollingStdLast(data, BollingerPeriod, rounding)
             upper_band == FSub(sma, FMul(std, Float(BollingerStdDev)))
             lower_band == FAdd(sma, FMul(std, Float(BollingerStdDev)))
         IN  [upper |-> OrNone(upper_band),
              middle |-> OrNone(sma),
              lower |-> OrNone(lower_band)]

\* CalculateBollingerBands with the middle band on rolling(min_periods=1).
CalculateBollingerBandsMiddleEarly(data, fault, rounding) ==
    IF fault \/ Len(data) = 0 THEN BollingerNone
    ELSE LET sma == RollingMeanLast(data, BollingerPeriod)
             std == RollingStdLast(data, BollingerPeriod, rounding)
             upper_band == FAdd(sma, FMul(std, Float(BollingerStdDev)))
             lower_band == FSub(sma, FMul(std, Float(BollingerStdDev)))
         IN  [upper |-> OrNone(upper_band),
              middle |-> OrNone(RollingMeanLastMinPeriods1(data, BollingerPeriod)),
              lower |-> OrNone(lower_band)]

CalculateBollingerBands(data, fault, rounding) ==
    IF fault \/ Len(data) = 0 THEN BollingerNone
    ELSE LET sma == RollingMeanLast(data, BollingerPeriod)
             std == RollingStdLast(data, BollingerPeriod, rounding)
             upper_band == FAdd(sma, FMul(std, Float(BollingerStdDev)))
             lower_band == FSub(sma, FMul(std, Float(BollingerStdDev)))
         IN  [upper |-> OrNone(upper_band),
              middle |-> OrNone(sma),
              lower |-> OrNone(lower_band)]

StochasticNone == [k |-> None, d |-> None]

\* KPercentAt with a zero-range guard that substitutes 0.
KPercentAtZeroRangeIsZero(high, low, close, i) ==
    IF i < KPeriod THEN NaN
    ELSE LET lowest_low == MinRange(low, i - KPeriod + 1, i)
             highest_high == MaxRange(high, i - KPeriod + 1, i)
         IN  IF highest_high = lowest_low THEN Zero
             ELSE FMul(Float(100),
                       FDiv(Float(close[i] - lowest_low), Float(highest_high - lowest_low)))

\* 100 * ((close - lowest_low) / (highest_high - lowest_low)) at row i
KPercentAt(high, low, close, i) ==
    IF i < KPeriod THEN NaN
    ELSE LET lowest_low == MinRange(low, i - KPeriod + 1, i)
             highest_high == MaxRange(high, i - KPeriod + 1, i)
         IN  FMul(Float(100),
                  FDiv(Float(close[i] - lowest_low), Float(highest_high - lowest_low)))

RECURSIVE FSumRange(_, _, _)
FSumRange(f, lo, hi) == IF lo > hi THEN Zero ELSE FAdd(f[hi], FSumRange(f, lo, hi - 1))

\* DPercentLast on rolling(min_periods=1): the mean of the %K values there are.
DPercentLastMinPeriods1(high, low, close) ==
    LET n == Len(close)
        lo == IF n < DPeriod THEN 1 ELSE n - DPeriod + 1
        k == [i \in lo..n |-> KPercentAt(high, low, close, i)]
        have == {i \in lo..n : IsFinite(k[i])}
        kk == [i \in lo..n |-> IF i \in have THEN k[i] ELSE Zero]
    IN  IF have = {} THEN NaN
        ELSE FDiv(FSumRange(kk, lo, n), Float(Cardinality(have)))

\* k_percent.rolling(window=d_period).mean() at the last row.  rolling takes
\* an infinite value for NaN, and the mean is NaN unless the window holds
\* d_period values that are not NaN
DPercentLast(high, low, close) ==
    LET n == Len(close)
    IN  IF n < DPeriod THEN NaN
        ELSE LET k == [i \in (n - DPeriod + 1)..n |-> KPercentAt(high, low, close, i)]
             IN  IF \E i \in DOMAIN k : ~IsFinite(k[i]) THEN NaN
                 ELSE FDiv(FSumRange(k, n - DPeriod + 1, n), Float(DPeriod))

CalculateStochastic(high, low, close, fault) ==
    IF fault \/ Len(close) = 0 THEN StochasticNone
    ELSE [k |-> OrNone(KPercentAt(high, low, close, Len(close))),
          d |-> OrNone(DPercentLast(high, low, close))]

\* pd.concat([tr1, tr2, tr3], axis=1).max(axis=1): the row maximum skips the
\* NaN of close.shift() in the first row
TrueRange(high, low, close) ==
    [i \in 1..Len(close) |->
        IF i = 1 THEN high[i] - low[i]
        ELSE Max2(high[i] - low[i],
                  Max2(Abs(high[i] - close[i - 1]), Abs(low[i] - close[i - 1])))]

CalculateAtr(high, low, close, fault) ==
    IF fault \/ Len(close) = 0 THEN None
    ELSE OrNone(RollingMeanLast(TrueRange(high, low, close), AtrPeriod))

(***************************************************************************)
(* The aggregator, get_technical_indicators.                               *)
(***************************************************************************)
Faults == {"none", "rsi", "macd", "sma", "ema", "bollinger", "stochastic",
           "atr", "volume"}

\* Raised by Python's float division when the divisor is 0.0.
ZeroDivisionError == <<"ZeroDivisionError">>
IsRaise(x) == Len(x) = 1

PyDiv(a, b) == IF IsFinite(b) /\ b[1] = 0 THEN ZeroDivisionError ELSE FDiv(a, b)

\* ErrorResult with the default period instead of the requested one.
ErrorResultDefaultPeriod(msg, ticker, period) ==
    [error |-> msg, ticker |-> ticker, period |-> "3mo"]

ErrorResult(msg, ticker, period) ==
    [error |-> msg, ticker |-> ticker, period |-> period]

\* AvgVolume as a rolling mean of the last 20 bars.
AvgVolumeRolling(volume) == RollingMeanLastMinPeriods1(volume, 20)

\* float(hist['Volume'].mean())
AvgVolume(volume) == Norm(SumRange(volume, 1, Len(volume)), Len(volume))

\* current_volume / avg_volume if avg_volume > 0 else None
VolumeRatio(current_volume, avg_volume) ==
    IF FGt(avg_volume, Zero) THEN PyDiv(current_volume, avg_volume) ELSE None

\* PriceVsSma relative to the price instead of the average.
PriceVsSmaOverPrice(current_price, sma) ==
    IF Truthy(sma)
    THEN FMul(PyDiv(FSub(current_price, sma), current_price), Float(100))
    ELSE None

\* ((current_price - sma) / sma * 100) if sma else None
PriceVsSma(current_price, sma) ==
    IF Truthy(sma)
    THEN FMul(PyDiv(FSub(current_price, sma), sma), Float(100))
    ELSE None

RsiSignal(rsi) ==
    IF Truthy(rsi) /\ FLt(rsi, Float(30)) THEN "oversold"
    ELSE IF Truthy(rsi) /\ FGt(rsi, Float(70)) THEN "overbought"
    ELSE IF Truthy(rsi) THEN "neutral"
    ELSE NoneStr

BollingerPosition(bollinger, current_price) ==
    IF Truthy(bollinger.upper) /\ FGt(current_price, bollinger.upper) THEN "above_upper"
    ELSE IF Truthy(bollinger.lower) /\ FLt(current_price, bollinger.lower) THEN "below_lower"
    ELSE IF Truthy(bollinger.upper) /\ Truthy(bollinger.lower) THEN "within_bands"
    ELSE NoneStr

GetTechnicalIndicators(h, ticker, period, fault, ts, rounding) ==
    IF Len(h) = 0
    THEN ErrorResult("No historical data available", ticker, period)
    ELSE
    LET close == Column(h, "Close")
        high == Column(h, "High")
        low == Column(h, "Low")
        volume == Column(h, "Volume")
        current_price == Float(close[Len(h)])
        rsi == CalculateRsi(close, fault = "rsi")
        macd_data == CalculateMacd(close, fault = "macd")
        sma == CalculateMovingAverages(close, fault = "sma")
        ema == CalculateEma(close, fault = "ema")
        bollinger == CalculateBollingerBands(close, fault = "bollinger", rounding)
        stochastic == CalculateStochastic(high, low, close, fault = "stochastic")
        atr == CalculateAtr(high, low, close, fault = "atr")
        avg_volume == AvgVolume(volume)
        current_volume == Float(volume[Len(h)])
        volume_ratio == VolumeRatio(current_volume, avg_volume)
        price_vs_sma20 == PriceVsSma(current_price, sma.sma_20)
        price_vs_sma50 == PriceVsSma(current_price, sma.sma_50)
        price_vs_sma200 == PriceVsSma(current_price, sma.sma_200)
    IN  IF fault = "volume" THEN ErrorResult("str(e)", ticker, period)
        ELSE IF IsRaise(volume_ratio) THEN ErrorResult("float division by zero", ticker, period)
        ELSE
        [ticker |-> ticker,
         period |-> period,
         timestamp |-> ts,
         current_price |-> current_price,
         indicators |->
           [rsi |-> [value |-> rsi, signal |-> RsiSignal(rsi)],
            macd |-> macd_data,
            moving_averages |->
              [sma |-> sma,
               ema |-> ema,
               price_vs_sma20 |-> price_vs_sma20,
               price_vs_sma50 |-> price_vs_sma50,
               price_vs_sma200 |-> price_vs_sma200],
            bollinger_bands |->
              [upper |-> bollinger.upper,
               middle |-> bollinger.middle,
               lower |-> bollinger.lower,
               position |-> BollingerPosition(bollinger, current_price)],
            stochastic |-> stochastic,
            atr |-> atr,
            volume |->
              [current |-> current_volume,
               average |-> avg_volume,
               ratio |-> volume_ratio]]]

(***************************************************************************)
(* The inputs: price histories as the provider returns them.  A history    *)
(* is a prefix of a periodic market pattern followed by at most MaxTail    *)
(* free bars.                                                              *)
(***************************************************************************)
Cycle(s, i) == s[((i - 1) % Len(s)) + 1]

Rally == [i \in 1..32 |-> 99 + i]
Selloff == [i \in 1..32 |-> 132 - i]
SawLow == [i \in 1..16 |-> IF i <= 14 THEN 100 ELSE IF i = 15 THEN 103 ELSE 96]
SawHigh == [i \in 1..16 |-> IF i <= 14 THEN 100 ELSE IF i = 15 THEN 97 ELSE 104]
Spike == [i \in 1..10 |-> IF i <= 9 THEN 100 ELSE 1000]
\* 20 closes of mean 4 and sample standard deviation 2
Wide == [i \in 1..20 |-> IF i = 1 THEN 12 ELSE IF i <= 3 THEN 2 ELSE IF i <= 7 THEN 3 ELSE 4]

Patterns ==
    {[close |-> <<100>>, spread |-> 0, volume |-> <<0>>],
     [close |-> Rally, spread |-> 1, volume |-> <<1000000>>],
     [close |-> Selloff, spread |-> 2, volume |-> Spike],
     [close |-> SawLow, spread |-> 0, volume |-> Spike],
     [close |-> SawHigh, spread |-> 1, volume |-> <<1000>>],
     [close |-> Wide, spread |-> 1, volume |-> <<1000>>]}

PatternBar(p, i) ==
    [Close |-> Cycle(p.close, i),
     High |-> Cycle(p.close, i) + p.spread,
     Low |-> Cycle(p.close, i) - p.spread,
     Volume |-> Cycle(p.volume, i)]

FreeBars ==
    {[Close |-> 96, High |-> 97, Low |-> 95, Volume |-> 0],
     [Close |-> 107, High |-> 109, Low |-> 100, Volume |-> 5000]}

LongLens == {49, 50, 99, 100, 199, 200}
Lens == (0..MaxShort) \cup LongLens
Tails == UNION {[1..k -> FreeBars] : k \in 0..MaxTail}

Histories ==
    {[i \in 1..n |-> PatternBar(p, i)] \o t : p \in Patterns, n \in Lens, t \in Tails}

Requests == {<<"AAPL", "3mo">>, <<"MSFT", "1y">>}

\* the roundings that make a difference on a series: the same series always
\* meets the same one
RoundingsOf(data) ==
    {e \in Roundings :
        e = 0 \/ RollingStdLast(data, BollingerPeriod, e) # RollingStdLast(data, BollingerPeriod, 0)}

(***************************************************************************)
(* State: hist is the history the provider returns; out is the last call   *)
(* made on it and the value it returned; now is the clock that             *)
(* datetime.now() reads; prev is the calls made before the last one.       *)
(***************************************************************************)
Idle == [op |-> "none"]

Init ==
    /\ hist \in Histories
    /\ out = Idle
    /\ now = 0
    /\ prev = <<>>
    /\ OutsideEngineNew

\* no history fetched, no call made
EngineNew == hist = <<>> /\ out = Idle /\ now = 0 /\ prev = <<>>

Call(op, fault, ret) == [op |-> op, fault |-> fault, ret |-> ret]

CallRsi ==
    /\ out = Idle
    /\ \E f \in BOOLEAN :
         out' = Call("calculate_rsi", f, CalculateRsi(Column(hist, "Close"), f))
    /\ UNCHANGED <<hist, now, prev, outsideEngine>>

CallMacd ==
    /\ out = Idle
    /\ \E f \in BOOLEAN :
         out' = Call("calculate_macd", f, CalculateMacd(Column(hist, "Close"), f))
    /\ UNCHANGED <<hist, now, prev, outsideEngine>>

CallMovingAverages ==
    /\ out = Idle
    /\ \E f \in BOOLEAN :
         out' = Call("calculate_moving_averages", f,
                     CalculateMovingAverages(Column(hist, "Close"), f))
    /\ UNCHANGED <<hist, now, prev, outsideEngine>>

CallEma ==
    /\ out = Idle
    /\ \E f \in BOOLEAN :
         out' = Call("calculate_ema", f, CalculateEma(Column(hist, "Close"), f))
    /\ UNCHANGED <<hist, now, prev, outsideEngine>>

CallBollingerBands ==
    /\ out = Idle
    /\ \E f \in BOOLEAN, e \in RoundingsOf(Column(hist, "Close")) :
         out' = Call("calculate_bollinger_bands", f,
                     CalculateBollingerBands(Column(hist, "Close"), f, e))
    /\ UNCHANGED <<hist, now, prev, outsideEngine>>

CallStochastic ==
    /\ out = Idle
    /\ \E f \in BOOLEAN :
         out' = Call("calculate_stochastic", f,
                     CalculateStochastic(Column(hist, "High"), Column(hist, "Low"),
                                         Column(hist, "Close"), f))
    /\ UNCHANGED <<hist, now, prev, outsideEngine>>

CallAtr ==
    /\ out = Idle
    /\ \E f \in BOOLEAN :
         out' = Call("calculate_atr", f,
                     CalculateAtr(Column(hist, "High"), Column(hist, "Low"),
                                  Column(hist, "Close"), f))
    /\ UNCHANGED <<hist, now, prev, outsideEngine>>

CallGetTechnicalIndicators ==
    /\ out = Idle
    /\ \E r \in Requests, f \in Faults, e \in RoundingsOf(Column(hist, "Close")) :
         out' = [op |-> "get_technical_indicators", ticker |-> r[1], period |-> r[2],
                 fault |-> f, rounding |-> e,
                 ret |-> GetTechnicalIndicators(hist, r[1], r[2], f, now, e)]
    /\ UNCHANGED <<hist, now, prev, outsideEngine>>

Next ==
    \/ CallRsi
    \/ CallMacd
    \/ CallMovingAverages
    \/ CallEma
    \/ CallBollingerBands
    \/ CallStochastic
    \/ CallAtr
    \/ CallGetTechnicalIndicators

Spec == Init /\ [][Next]_vars

(***************************************************************************)
(* The aggregator called again and again by one process, while the clock   *)
(* that datetime.now() reads advances and the provider's series gain bars. *)
(* provider is what yfinance returns for each ticker now; hist is the      *)
(* series the last call fetched and out that call, with its report once it *)
(* has returned; prev is the calls before it with the series they fetched, *)
(* oldest first.  A call is two steps: the provider answers                *)
(* stock.history, and later the call reads the clock and returns; the      *)
(* clock and the provider's series change in between.                      *)
(***************************************************************************)
MaxRepeats == 2
RepeatLens == {0, 14, MaxShort}
RepeatPatterns == {p \in Patterns : p.close \in {Rally, Wide}}
\* below 20 bars the wide closes have no standard deviation to round: the
\* 14-bar series is the rally's
RepeatLensOf(p) == IF p.close = Wide THEN RepeatLens \ {14} ELSE RepeatLens
RepeatHistories ==
    UNION {{[i \in 1..n |-> PatternBar(p, i)] : n \in RepeatLensOf(p)} : p \in RepeatPatterns}
RepeatBar == [Close |-> 107, High |-> 109, Low |-> 100, Volume |-> 5000]

Filed(h, call) == [hist |-> h, call |-> call]

\* the last call is waiting between stock.history and its return
InFlight == out # Idle /\ out.pc = "fetched"

\* the calls made so far, oldest first
Made == IF out = Idle THEN prev ELSE Append(prev, Filed(hist, out))

\* the last call that has returned before the one in flight
Kept == IF prev = <<>> THEN Idle ELSE prev[Len(prev)].call

\* floating-point arithmetic is deterministic: a series meets the rounding
\* it met in the calls made before
RoundingsMet(data) ==
    LET met == {Made[i].call.rounding :
                   i \in {j \in 1..Len(Made) : Column(Made[j].hist, "Close") = data}}
    IN  IF met = {} THEN RoundingsOf(data) ELSE met

\* a report kept in a module-level dict that a call updates with the values
\* it could compute: what it leaves null is the value of the call before.
ReturnedKept(kept, report) ==
    IF kept = Idle \/ "indicators" \notin DOMAIN kept.ret
       \/ "indicators" \notin DOMAIN report
    THEN report
    ELSE LET old == kept.ret.indicators
         IN  [report EXCEPT
                !.indicators.rsi.value = IF @ = None THEN old.rsi.value ELSE @,
                !.indicators.atr = IF @ = None THEN old.atr ELSE @,
                !.indicators.moving_averages.sma.sma_20 =
                    IF @ = None THEN old.moving_averages.sma.sma_20 ELSE @]

\* return {...}: the dict literal is built by this call, nothing of the calls
\* before (kept) is in it
Returned(kept, report) == report

InitTwice ==
    /\ hist = <<>>
    /\ out = Idle
    /\ now = 0
    /\ prev = <<>>
    /\ RedditNew
    /\ WatchlistNew
    /\ SchwabNew
    /\ provider \in [{r[1] : r \in Requests} -> RepeatHistories]
    /\ calls = <<>>

Tick ==
    /\ now < MaxClock
    /\ now' = now + 1
    /\ UNCHANGED <<hist, out, prev, outsideEngine>>

\* the provider's series of a ticker gains a bar
NewBar ==
    /\ \E t \in DOMAIN provider :
         /\ Len(provider[t]) \in RepeatLens
         /\ provider' = [provider EXCEPT ![t] = Append(@, RepeatBar)]
    /\ UNCHANGED <<engineVars, redditVars, watchlistVars, schwabVars, calls>>

\* one more call of get_technical_indicators(ticker, period), up to the
\* answer of stock.history(period=period): the call has the series the
\* provider returns now
CallFetch ==
    /\ ~InFlight
    /\ Len(Made) <= MaxRepeats
    /\ \E r \in Requests :
         \E e \in RoundingsMet(Column(provider[r[1]], "Close")) :
            /\ hist' = provider[r[1]]
            /\ out' = [op |-> "get_technical_indicators", pc |-> "fetched",
                       ticker |-> r[1], period |-> r[2], fault |-> "none",
                       rounding |-> e, ret |-> None]
            /\ prev' = Made
    /\ UNCHANGED <<now, outsideEngine>>

\* the rest of the call: it builds its report on the series it fetched,
\* stamps it with the clock it reads now and returns
CallReturn ==
    /\ InFlight
    /\ out' = [out EXCEPT
                 !.pc = "done",
                 !.ret = Returned(Kept,
                                  GetTechnicalIndicators(hist, out.ticker, out.period,
                                                         "none", now, out.rounding))]
    /\ UNCHANGED <<hist, now, prev, outsideEngine>>

NextTwice ==
    \/ CallFetch
    \/ CallReturn
    \/ Tick
    \/ NewBar

SpecTwice == InitTwice /\ [][NextTwice]_vars

(***************************************************************************)
(* Vocabulary of the properties.                                           *)
(***************************************************************************)
IsCall(op) == out.op = op
IsGti == out.op = "get_technical_indicators"
IsReport == IsGti /\ "indicators" \in DOMAIN out.ret
IsError == IsGti /\ "error" \in DOMAIN out.ret
Ind == out.ret.indicators
Closes == Column(hist, "Close")
N == Len(hist)

\* the last 14 price deltas exist and none of them is a loss
ZeroLossWindow == N >= 15 /\ \A i \in (N - 13)..N : Closes[i] >= Closes[i - 1]
\* the last 14 price deltas exist and none of them is a gain
ZeroGainWindow == N >= 15 /\ \A i \in (N - 13)..N : Closes[i] <= Closes[i - 1]
StrictlyIncreasing == \A i \in 2..N : Closes[i] > Closes[i - 1]
StrictlyDecreasing == \A i \in 2..N : Closes[i] < Closes[i - 1]

(***************************************************************************)
(* C1 as stated: a report on a window of 14 deltas with zero mean loss has *)
(* rsi.value = null and rsi.signal = null, never 100 and "overbought".     *)
(***************************************************************************)
C1_ZeroLossIsNull ==
    (IsReport /\ out.fault = "none" /\ ZeroLossWindow)
        => (Ind.rsi.value = None /\ Ind.rsi.signal = NoneStr)

(***************************************************************************)
(* C2: a series shorter than an indicator's window gives null for that     *)
(* indicator: RSI(14), SMA(20/50/100/200), Bollinger(20), stochastic       *)
(* k(14), ATR(14); the calculator returns (no exception escapes it), for   *)
(* every length including 0, called directly or by the aggregator.         *)
(***************************************************************************)
C2_NullBelowWindow ==
    /\ IsCall("calculate_rsi") => (N < 14 => out.ret = None)
    /\ IsCall("calculate_moving_averages") =>
         /\ N < 20 => out.ret.sma_20 = None
         /\ N < 50 => out.ret.sma_50 = None
         /\ N < 100 => out.ret.sma_100 = None
         /\ N < 200 => out.ret.sma_200 = None
    /\ IsCall("calculate_bollinger_bands") =>
         (N < 20 => out.ret = [upper |-> None, middle |-> None, lower |-> None])
    /\ IsCall("calculate_stochastic") => (N < 14 => out.ret.k = None)
    /\ IsCall("calculate_atr") => (N < 14 => out.ret = None)
    /\ IsReport =>
         /\ N < 14 => Ind.rsi.value = None /\ Ind.stochastic.k = None /\ Ind.atr = None
         /\ N < 20 => /\ Ind.moving_averages.sma.sma_20 = None
                      /\ Ind.bollinger_bands.upper = None
                      /\ Ind.bollinger_bands.middle = None
                      /\ Ind.bollinger_bands.lower = None
         /\ N < 50 => Ind.moving_averages.sma.sma_50 = None
         /\ N < 100 => Ind.moving_averages.sma.sma_100 = None
         /\ N < 200 => Ind.moving_averages.sma.sma_200 = None

C2_Witness ==
    /\ IsCall("calculate_bollinger_bands") /\ ~out.fault
    /\ N = 19
    /\ out.ret.middle = None

(***************************************************************************)
(* C3 as stated: for every non-empty well-formed series the aggregator     *)
(* returns a report, not an error, that holds every key of the output      *)
(* contract; every optional number is null or a finite number, every label *)
(* is one of its values or null, and a field that cannot be computed (its  *)
(* window is longer than the series, or its computation divides by zero)   *)
(* is null, never a number standing in for it.                             *)
(***************************************************************************)
OptFloat(x) == IsNone(x) \/ IsFinite(x)

C3_ReportComplete ==
    (IsGti /\ N >= 1 /\ out.fault = "none") =>
        /\ DOMAIN out.ret = {"ticker", "period", "timestamp", "current_price", "indicators"}
        /\ DOMAIN Ind = {"rsi", "macd", "moving_averages", "bollinger_bands",
                         "stochastic", "atr", "volume"}
        /\ DOMAIN Ind.rsi = {"value", "signal"}
        /\ DOMAIN Ind.macd = {"macd", "signal", "histogram"}
        /\ DOMAIN Ind.moving_averages =
             {"sma", "ema", "price_vs_sma20", "price_vs_sma50", "price_vs_sma200"}
        /\ DOMAIN Ind.moving_averages.sma = {"sma_20", "sma_50", "sma_100", "sma_200"}
        /\ DOMAIN Ind.moving_averages.ema = {"ema_12", "ema_26", "ema_50"}
        /\ DOMAIN Ind.bollinger_bands = {"upper", "middle", "lower", "position"}
        /\ DOMAIN Ind.stochastic = {"k", "d"}
        /\ DOMAIN Ind.volume = {"current", "average", "ratio"}
        /\ OptFloat(Ind.rsi.value)
        /\ Ind.rsi.signal \in {"oversold", "overbought", "neutral", NoneStr}
        /\ \A f \in DOMAIN Ind.macd : OptFloat(Ind.macd[f])
        /\ \A f \in DOMAIN Ind.moving_averages.sma : OptFloat(Ind.moving_averages.sma[f])
        /\ \A f \in DOMAIN Ind.moving_averages.ema : OptFloat(Ind.moving_averages.ema[f])
        /\ OptFloat(Ind.moving_averages.price_vs_sma20)
        /\ OptFloat(Ind.moving_averages.price_vs_sma50)
        /\ OptFloat(Ind.moving_averages.price_vs_sma200)
        /\ \A f \in {"upper", "middle", "lower"} : OptFloat(Ind.bollinger_bands[f])
        /\ Ind.bollinger_bands.position \in
             {"above_upper", "below_lower", "within_bands", NoneStr}
        /\ OptFloat(Ind.stochastic.k) /\ OptFloat(Ind.stochastic.d)
        /\ OptFloat(Ind.atr)
        /\ IsFinite(Ind.volume.current) /\ IsFinite(Ind.volume.average)
        /\ OptFloat(Ind.volume.ratio)
        \* the window is longer than the series
        /\ N < 15 => Ind.rsi.value = None /\ Ind.atr = None
        /\ N < 14 => Ind.stochastic.k = None
        /\ N < 16 => Ind.stochastic.d = None
        /\ N < 20 => /\ Ind.moving_averages.sma.sma_20 = None
                     /\ \A f \in {"upper", "middle", "lower"} :
                           Ind.bollinger_bands[f] = None
        /\ N < 50 => Ind.moving_averages.sma.sma_50 = None
        /\ N < 100 => Ind.moving_averages.sma.sma_100 = None
        /\ N < 200 => Ind.moving_averages.sma.sma_200 = None
        \* the computation divides by zero
        /\ ZeroLossWindow => Ind.rsi.value = None
        /\ Ind.volume.average = Zero => Ind.volume.ratio = None

(***************************************************************************)
(* C4: on an empty series the aggregator returns the error result: exactly *)
(* the keys error, ticker, period, with the ticker and period of the call. *)
(***************************************************************************)
C4_EmptyIsError ==
    (IsGti /\ N = 0) =>
        /\ DOMAIN out.ret = {"error", "ticker", "period"}
        /\ out.ret.ticker = out.ticker
        /\ out.ret.period = out.period

C4_Witness ==
    /\ IsGti /\ N = 0 /\ out.period = "1y"
    /\ out.ret.error = "No historical data available"

(***************************************************************************)
(* C5 as stated: a fault raised in one of the seven indicator groups of a  *)
(* non-empty series leaves a normal report in which every other group has  *)
(* the value of the fault-free computation.                                *)
(***************************************************************************)
GroupOf(fault) ==
    CASE fault = "rsi" -> "rsi"
      [] fault = "macd" -> "macd"
      [] fault \in {"sma", "ema"} -> "moving_averages"
      [] fault = "bollinger" -> "bollinger_bands"
      [] fault = "stochastic" -> "stochastic"
      [] fault = "atr" -> "atr"
      [] fault = "volume" -> "volume"

C5_FaultIsolated ==
    (IsGti /\ N >= 1 /\ out.fault # "none") =>
        /\ IsReport
        /\ \A g \in DOMAIN Ind \ {GroupOf(out.fault)} :
             Ind[g] = GetTechnicalIndicators(hist, out.ticker, out.period, "none", 0,
                                             out.rounding).indicators[g]

(***************************************************************************)
(* C6 as stated: RSI(14) is null for every series of fewer than 15 bars.   *)
(***************************************************************************)
C6_RsiNullBelow15 ==
    /\ (IsCall("calculate_rsi") /\ N < 15) => out.ret = None
    /\ (IsReport /\ N < 15) => Ind.rsi.value = None

(***************************************************************************)
(* C7 as stated: rsi.signal is "oversold" below 30, "overbought" above 70, *)
(* "neutral" otherwise, and null exactly when rsi.value is null.           *)
(***************************************************************************)
C7_SignalFollowsValue ==
    IsReport =>
        Ind.rsi.signal =
            (IF Ind.rsi.value = None THEN NoneStr
             ELSE IF FLt(Ind.rsi.value, Float(30)) THEN "oversold"
             ELSE IF FGt(Ind.rsi.value, Float(70)) THEN "overbought"
             ELSE "neutral")

(***************************************************************************)
(* C8 as stated: ema_12, ema_26 and ema_50 are non-null for every series   *)
(* of at least one bar.                                                    *)
(***************************************************************************)
C8_EmaAlwaysDefined ==
    (IsReport /\ out.fault = "none") =>
        \A f \in {"ema_12", "ema_26", "ema_50"} : Ind.moving_averages.ema[f] # None

(***************************************************************************)
(* C8 amended: ema_12, ema_26 and ema_50 are non-null exactly when the     *)
(* series has at least 12, 26 and 50 bars respectively.                    *)
(***************************************************************************)
EmaGuarded(ema) ==
    /\ ema.ema_12 # None <=> N >= 12
    /\ ema.ema_26 # None <=> N >= 26
    /\ ema.ema_50 # None <=> N >= 50

C8_EmaNeedsSpanBars ==
    /\ (IsCall("calculate_ema") /\ ~out.fault) => EmaGuarded(out.ret)
    /\ (IsReport /\ out.fault = "none") => EmaGuarded(Ind.moving_averages.ema)

C8_Witness ==
    /\ IsReport /\ out.fault = "none"
    /\ N = 12
    /\ Ind.moving_averages.ema.ema_12 # None
    /\ Ind.moving_averages.ema.ema_26 = None

(***************************************************************************)
(* C9: whenever macd, signal and histogram are all non-null, histogram     *)
(* equals macd minus signal.                                               *)
(***************************************************************************)
HistogramIdentity(m) ==
    (m.macd # None /\ m.signal # None /\ m.histogram # None)
        => m.histogram = FSub(m.macd, m.signal)

C9_HistogramIdentity ==
    /\ IsCall("calculate_macd") => HistogramIdentity(out.ret)
    /\ IsReport => HistogramIdentity(Ind.macd)

C9_Witness ==
    /\ IsReport
    /\ Ind.macd.macd # None /\ Ind.macd.signal # None /\ Ind.macd.histogram # None
    /\ FGt(Ind.macd.macd, Zero) /\ FGt(Ind.macd.signal, Zero)
    /\ FLt(Ind.macd.histogram, Zero)

(***************************************************************************)
(* C10: calculate_macd returns macd, signal and histogram all non-null for *)
(* every close series of at least one bar, all 0 for a single bar, and     *)
(* returns all three null (it does not raise) for the empty series.        *)
(***************************************************************************)
C10_MacdDefined ==
    (IsCall("calculate_macd") /\ ~out.fault) =>
        /\ N >= 1 => (out.ret.macd # None /\ out.ret.signal # None
                      /\ out.ret.histogram # None)
        /\ N = 1 => out.ret = [macd |-> Zero, signal |-> Zero, histogram |-> Zero]
        /\ N = 0 => out.ret = [macd |-> None, signal |-> None, histogram |-> None]

C10_Witness ==
    /\ IsCall("calculate_macd") /\ ~out.fault
    /\ N = 1
    /\ out.ret.histogram = Zero

(***************************************************************************)
(* Vocabulary of the Bollinger, stochastic, ATR and volume properties.     *)
(***************************************************************************)
Highs == Column(hist, "High")
Lows == Column(hist, "Low")
Volumes == Column(hist, "Volume")
CurrentPrice == Float(Closes[N])
FLeq(a, b) == FLt(a, b) \/ a = b
BandsNone(b) == b.upper = None /\ b.middle = None /\ b.lower = None
BandsSome(b) == b.upper # None /\ b.middle # None /\ b.lower # None

(***************************************************************************)
(* C11: whenever the three Bollinger bands are non-null,                   *)
(* lower <= middle <= upper.                                               *)
(***************************************************************************)
BandsOrdered(b) == BandsSome(b) => (FLeq(b.lower, b.middle) /\ FLeq(b.middle, b.upper))

C11_BandsOrdered ==
    /\ IsCall("calculate_bollinger_bands") => BandsOrdered(out.ret)
    /\ IsReport => BandsOrdered(Ind.bollinger_bands)

C11_Witness ==
    /\ IsReport /\ BandsSome(Ind.bollinger_bands)
    /\ FLt(Ind.bollinger_bands.lower, Ind.bollinger_bands.middle)
    /\ FLt(Ind.bollinger_bands.middle, Ind.bollinger_bands.upper)

(***************************************************************************)
(* C12: the three Bollinger bands are null together: all null below 20     *)
(* bars, all non-null from 20 bars on, never mixed.                        *)
(***************************************************************************)
C12_BandsNullTogether ==
    /\ (IsCall("calculate_bollinger_bands") /\ ~out.fault) =>
         IF N < 20 THEN BandsNone(out.ret) ELSE BandsSome(out.ret)
    /\ (IsReport /\ out.fault = "none") =>
         IF N < 20 THEN BandsNone(Ind.bollinger_bands) ELSE BandsSome(Ind.bollinger_bands)
    /\ IsReport => (BandsNone(Ind.bollinger_bands) \/ BandsSome(Ind.bollinger_bands))

C12_Witness ==
    /\ IsReport /\ out.fault = "none"
    /\ N = 20
    /\ BandsSome(Ind.bollinger_bands)

(***************************************************************************)
(* C13 as stated: position is "above_upper" if the current price is above  *)
(* the upper band, "below_lower" if it is below the lower band and         *)
(* "within_bands" otherwise whenever the three bands are non-null,         *)
(* whatever their values; it is null exactly when the bands are null.      *)
(***************************************************************************)
C13_PositionFollowsBands ==
    IsReport =>
        Ind.bollinger_bands.position =
            (IF ~BandsSome(Ind.bollinger_bands) THEN NoneStr
             ELSE IF FGt(CurrentPrice, Ind.bollinger_bands.upper) THEN "above_upper"
             ELSE IF FLt(CurrentPrice, Ind.bollinger_bands.lower) THEN "below_lower"
             ELSE "within_bands")

(***************************************************************************)
(* C14: a constant-price series (high = low = close, constant) of at least *)
(* 20 bars gives a normal report with stochastic.k = null and non-null     *)
(* Bollinger bands of zero width.                                          *)
(***************************************************************************)
ConstantPrice ==
    \A i \in 1..N : /\ Closes[i] = Closes[1]
                    /\ Highs[i] = Closes[1]
                    /\ Lows[i] = Closes[1]

C14_FlatSeries ==
    (IsGti /\ out.fault = "none" /\ N >= 20 /\ ConstantPrice) =>
        /\ IsReport
        /\ Ind.stochastic.k = None
        /\ Ind.bollinger_bands.middle = Float(Closes[1])
        /\ Ind.bollinger_bands.upper = Ind.bollinger_bands.middle
        /\ Ind.bollinger_bands.lower = Ind.bollinger_bands.middle

C14_Witness ==
    /\ IsReport /\ out.fault = "none" /\ N = 20 /\ ConstantPrice
    /\ Ind.stochastic.k = None
    /\ Ind.bollinger_bands.upper = Float(100)
    /\ Ind.bollinger_bands.lower = Float(100)

(***************************************************************************)
(* C15: when the high-low range of the 14-bar windows that end at the last *)
(* three bars is non-zero (so, when it is non-zero in every 14-bar         *)
(* window), stochastic.k is null exactly below 14 bars and stochastic.d is *)
(* null exactly below 16 bars.                                             *)
(***************************************************************************)
NonZeroRange(i) == MaxRange(Highs, i - 13, i) # MinRange(Lows, i - 13, i)
NonZeroLastRanges == \A i \in (N - 2)..N : i >= 14 => NonZeroRange(i)

StochasticWindows(st) ==
    /\ st.k = None <=> N < 14
    /\ st.d = None <=> N < 16

C15_StochasticWindows ==
    /\ (IsCall("calculate_stochastic") /\ ~out.fault /\ NonZeroLastRanges)
          => StochasticWindows(out.ret)
    /\ (IsReport /\ out.fault = "none" /\ NonZeroLastRanges)
          => StochasticWindows(Ind.stochastic)

C15_Witness ==
    /\ IsReport /\ out.fault = "none" /\ NonZeroLastRanges
    /\ N = 15
    /\ Ind.stochastic.k # None
    /\ Ind.stochastic.d = None

(***************************************************************************)
(* C16 as stated: the first bar has no true range, so ATR(14) is null      *)
(* until the series has 15 bars; a series of exactly 14 bars gives         *)
(* atr = null.                                                             *)
(***************************************************************************)
C16_AtrNullBelow15 ==
    /\ (IsCall("calculate_atr") /\ N < 15) => out.ret = None
    /\ (IsReport /\ N < 15) => Ind.atr = None

(***************************************************************************)
(* C17: volume.average is the mean of the volume of the whole series,      *)
(* volume.current is the last bar's volume, volume.ratio is                *)
(* current / average and is null exactly when the average is zero;         *)
(* volumes [100 x 9, 1000] give 190, 1000 and 1000/190.                    *)
(***************************************************************************)
SpikeVolumes == N = 10 /\ \A i \in 1..10 : Volumes[i] = IF i = 10 THEN 1000 ELSE 100

C17_VolumeContext ==
    IsReport =>
        /\ Ind.volume.current = Float(Volumes[N])
        /\ FMul(Ind.volume.average, Float(N)) = Float(SumRange(Volumes, 1, N))
        /\ Ind.volume.ratio = None <=> Ind.volume.average = Zero
        /\ Ind.volume.ratio # None =>
             FMul(Ind.volume.ratio, Ind.volume.average) = Ind.volume.current
        /\ SpikeVolumes =>
             /\ Ind.volume.average = Float(190)
             /\ Ind.volume.current = Float(1000)
             /\ Ind.volume.ratio = <<100, 19>>

C17_Witness ==
    /\ IsReport /\ SpikeVolumes
    /\ Ind.volume.average = Float(190)
    /\ Ind.volume.ratio = <<100, 19>>

(***************************************************************************)
(* C18: for W in {20, 50, 200}, price_vs_smaW is non-null exactly when     *)
(* sma_W is non-null, which is when the series has at least W bars, and    *)
(* then equals (current_price - sma_W) / sma_W * 100.                      *)
(***************************************************************************)
TrendPosition(pv, sma, w) ==
    /\ out.fault = "none" => (sma # None <=> N >= w)
    /\ pv # None <=> sma # None
    /\ pv # None => FMul(pv, sma) = FMul(Float(100), FSub(CurrentPrice, sma))

C18_TrendPosition ==
    IsReport =>
        /\ TrendPosition(Ind.moving_averages.price_vs_sma20,
                         Ind.moving_averages.sma.sma_20, 20)
        /\ TrendPosition(Ind.moving_averages.price_vs_sma50,
                         Ind.moving_averages.sma.sma_50, 50)
        /\ TrendPosition(Ind.moving_averages.price_vs_sma200,
                         Ind.moving_averages.sma.sma_200, 200)

C18_Witness ==
    /\ IsReport /\ N = 200
    /\ Ind.moving_averages.price_vs_sma200 # None
    /\ FLt(Ind.moving_averages.price_vs_sma200, Zero)
    /\ Ind.moving_averages.price_vs_sma50 # None
    /\ Ind.moving_averages.sma.sma_100 # None

(***************************************************************************)
(* C20: for a series of at least 15 bars that holds a gain and a loss,     *)
(* every non-null rsi.value lies in [0, 100].                              *)
(***************************************************************************)
HasGain == \E i \in 2..N : Closes[i] > Closes[i - 1]
HasLoss == \E i \in 2..N : Closes[i] < Closes[i - 1]
InUnitRange(x) == x # None => (FLeq(Zero, x) /\ FLeq(x, Float(100)))

C20_RsiBounded ==
    /\ (IsCall("calculate_rsi") /\ N >= 15 /\ HasGain /\ HasLoss) => InUnitRange(out.ret)
    /\ (IsReport /\ N >= 15 /\ HasGain /\ HasLoss) => InUnitRange(Ind.rsi.value)

C20_Witness ==
    /\ IsReport /\ N >= 15 /\ HasGain /\ HasLoss
    /\ Ind.rsi.value = Float(30)
    /\ Ind.rsi.signal = "neutral"

(***************************************************************************)
(* C19: two calls of the aggregator that fetch the identical price series  *)
(* for the same ticker and period return reports that agree in every field *)
(* except timestamp, whatever calls were made, whatever the clock did and  *)
(* whatever bars the provider's series gained between them and while they  *)
(* waited for the provider; two error results agree in every field.        *)
(***************************************************************************)
HasTimestamp(r) == "timestamp" \in DOMAIN r
Unstamped(r) == IF HasTimestamp(r) THEN [r EXCEPT !.timestamp = 0] ELSE r

\* the call filed as c had the input of the last call
SameInput(c) ==
    /\ c.hist = hist
    /\ c.call.ticker = out.ticker
    /\ c.call.period = out.period

CacheSizeLimit == 1000
MIN_SCORE == 10

TICKER_BLACKLIST ==
    {"CEO", "DD", "IMO", "IPO", "EOD", "FOR", "ALL", "NEW", "USA",
     "ETF", "ATH", "ATL", "PM", "AH", "ER", "IV", "PT", "EPS",
     "PE", "PS", "PB", "ROE", "ROI", "YOY", "QOQ", "TTM", "GDP",
     "CPI", "FOMC", "FED", "SEC", "IRS", "LLC", "INC", "LTD",
     "YOLO", "WSB", "TBH", "FOMO", "FUD", "HODL",
     "THE", "AND", "BUT", "NOT", "OUT", "NOW", "SEE", "GET",
     "HAS", "HAD", "DID", "CAN", "MAY", "ONE", "TWO", "TOP"}

\* the words of the texts, with their number of letters and their upper case
Words == {"A", "GME", "CEO", "ceo", "GOOGLE"}
WordLen == [w \in Words |-> IF w = "A" THEN 1 ELSE IF w = "GOOGLE" THEN 6 ELSE 3]
Upper(w) == IF w = "ceo" THEN "CEO" ELSE IF w = "aapl" THEN "AAPL" ELSE w
IsUpper(w) == Upper(w) = w

Tok(dollar, word) == [dollar |-> dollar, word |-> word]

\* TICKER_PATTERN on one token: \$([A-Z]{1,5})\b or a standalone [A-Z]{2,5}
Matches(token) ==
    /\ IsUpper(token.word)
    /\ WordLen[token.word] <= 5
    /\ token.dollar \/ WordLen[token.word] >= 2

\* set(potential_tickers): the upper-cased matches of re.findall, once each
PotentialTickers(text) ==
    {Upper(text[i].word) : i \in {j \in 1..Len(text) : Matches(text[j])}}

CacheLen(c) == Cardinality(c.named) + c.others
CacheAdd(c, t) == [c EXCEPT !.named = @ \cup {t}]

\* set.pop(): an arbitrary element leaves the set
CachePop(c) ==
    {[c EXCEPT !.named = @ \ {t}] : t \in c.named}
        \cup (IF c.others > 0 THEN {[c EXCEPT !.others = @ - 1]} ELSE {})

\* if len(cache) > self.cache_size_limit: cache.pop()
Limited(c) == IF CacheLen(c) > CacheSizeLimit THEN CachePop(c) ELSE {c}

\* what the yfinance lookup does: info with a price, info without, or raises
Outcomes == {"valid", "invalid", "raise"}

Answer(v, ret) == [validator |-> v, ret |-> ret]

\* is_valid_ticker without the blacklist test.
IsValidTickerNoBlacklist(v, word, outcome) ==
    LET ticker == Upper(word)
    IN  IF ticker \in v.valid_cache.named THEN {Answer(v, TRUE)}
        ELSE IF ticker \in v.invalid_cache.named THEN {Answer(v, FALSE)}
        ELSE IF outcome = "valid"
        THEN {Answer([v EXCEPT !.valid_cache = c], TRUE) :
                 c \in Limited(CacheAdd(v.valid_cache, ticker))}
        ELSE {Answer([v EXCEPT !.invalid_cache = c], FALSE) :
                 c \in Limited(CacheAdd(v.invalid_cache, ticker))}

\* TickerValidator.is_valid_ticker: the validators and return values the call
\* may end with (the element set.pop() removes is arbitrary)
IsValidTicker(v, word, outcome) ==
    LET ticker == Upper(word)
    IN  IF ticker \in TICKER_BLACKLIST THEN {Answer(v, FALSE)}
        ELSE IF ticker \in v.valid_cache.named THEN {Answer(v, TRUE)}
        ELSE IF ticker \in v.invalid_cache.named THEN {Answer(v, FALSE)}
        ELSE IF outcome = "valid"
        THEN {Answer([v EXCEPT !.valid_cache = c], TRUE) :
                 c \in Limited(CacheAdd(v.valid_cache, ticker))}
        ELSE IF outcome = "invalid"
        THEN {Answer([v EXCEPT !.invalid_cache = c], FALSE) :
                 c \in Limited(CacheAdd(v.invalid_cache, ticker))}
        ELSE {Answer([v EXCEPT !.invalid_cache = CacheAdd(@, ticker)], FALSE)}

Extracted(v, tickers) == [validator |-> v, tickers |-> tickers]

\* [t for t in unique_tickers if self.validator.is_valid_ticker(t)], the set
\* being walked in any order and every lookup ending in any outcome
RECURSIVE ValidTickers(_, _)
ValidTickers(v, todo) ==
    IF todo = {} THEN {Extracted(v, {})}
    ELSE UNION {UNION {UNION {
             {Extracted(rest.validator,
                        rest.tickers \cup (IF first.ret THEN {t} ELSE {})) :
                  rest \in ValidTickers(first.validator, todo \ {t})} :
             first \in IsValidTicker(v, t, o)} : o \in Outcomes} : t \in todo}

\* RedditStockTracker.extract_tickers
ExtractTickers(v, text) ==
    IF Len(text) = 0 THEN {Extracted(v, {})}
    ELSE ValidTickers(v, PotentialTickers(text))

NewStats == [count |-> 0, total_score |-> 0, total_comments |-> 0, posts |-> <<>>]

\* the loop "for ticker in all_tickers" over self.ticker_stats (a defaultdict)
UpdatedStats(stats, all_tickers, submission) ==
    [t \in DOMAIN stats \cup all_tickers |->
        IF t \notin all_tickers THEN stats[t]
        ELSE LET old == IF t \in DOMAIN stats THEN stats[t] ELSE NewStats
             IN  [count |-> old.count + 1,
                  total_score |-> old.total_score + submission.score,
                  total_comments |-> old.total_comments + submission.num_comments,
                  posts |-> Append(old.posts, submission.id)]]

Processed(tr, v, ret) == [tracker |-> tr, validator |-> v, ret |-> ret]

\* a store that forgets the mark: the mention is stored and counted, the
\* post's id is not added to processed_ids.
StoredUnmarked(tr, mention, submission) ==
    [tr EXCEPT !.mentions = Append(@, mention),
               !.ticker_stats = UpdatedStats(@, mention.tickers, submission)]

\* process_submission, lines 245-264: the mention appended to self.mentions,
\* the statistics of each of its tickers updated, the post marked processed
Stored(tr, mention, submission) ==
    [mentions |-> Append(tr.mentions, mention),
     processed_ids |-> tr.processed_ids \cup {submission.id},
     ticker_stats |-> UpdatedStats(tr.ticker_stats, mention.tickers, submission)]

\* RedditStockTracker.process_submission: the states and return values the
\* call may end with.  The submissions of a listing or of the stream are
\* fully loaded, so no statement of the try block raises on them.
ProcessSubmission(tr, v, submission) ==
    IF submission.id \in tr.processed_ids THEN {Processed(tr, v, None)}
    ELSE IF submission.score < MIN_SCORE THEN {Processed(tr, v, None)}
    ELSE UNION {UNION {
        LET all_tickers == title.tickers \cup body.tickers
            mention == [post_id |-> submission.id,
                        tickers |-> all_tickers,
                        score |-> submission.score,
                        num_comments |-> submission.num_comments]
        IN  IF all_tickers = {}
            THEN {Processed([tr EXCEPT !.processed_ids = @ \cup {submission.id}],
                            body.validator, None)}
            ELSE {Processed(Stored(tr, mention, submission), body.validator, mention)} :
        body \in IF submission.is_self /\ Len(submission.selftext) > 0
                 THEN ExtractTickers(title.validator, submission.selftext)
                 ELSE {Extracted(title.validator, {})}} :
        title \in ExtractTickers(v, submission.title)}

(***************************************************************************)
(* The submissions the stream presents and the caches the validator may    *)
(* have filled with symbols the model does not name.                       *)
(***************************************************************************)
MaxMentions == 2
PostIds == {"p1", "p2"}
Scores == {9, 10, 11}
Titles ==
    {<<Tok(FALSE, "GME"), Tok(FALSE, "CEO")>>,
     <<Tok(TRUE, "A"), Tok(FALSE, "GME"), Tok(TRUE, "GME")>>,
     <<Tok(FALSE, "GOOGLE"), Tok(FALSE, "ceo"), Tok(FALSE, "A")>>}
Selftexts == {<<>>, <<Tok(TRUE, "CEO"), Tok(TRUE, "A")>>}

\* the submissions reddit delivers; a post comes again with another score
Submissions ==
    [id : PostIds, score : Scores, num_comments : {3}, title : Titles,
     is_self : BOOLEAN, selftext : Selftexts]

InitReddit ==
    /\ EngineNew
    /\ WatchlistNew
    /\ SchwabNew
    /\ ExecutorNew
    /\ \E n \in {0, CacheSizeLimit} :
         validator = [valid_cache |-> [named |-> {}, others |-> n],
                      invalid_cache |-> [named |-> {}, others |-> n]]
    /\ tracker = TrackerNew
    /\ reply = NoReply

CallIsValidTicker ==
    /\ \E w \in Words, o \in Outcomes :
         \E r \in IsValidTicker(validator, w, o) :
            /\ validator' = r.validator
            /\ reply' = [op |-> "is_valid_ticker", ticker |-> w, ret |-> r.ret]
    /\ UNCHANGED <<tracker, outsideReddit>>

CallProcessSubmission ==
    /\ Len(tracker.mentions) < MaxMentions
    /\ \E submission \in Submissions :
         \E r \in ProcessSubmission(tracker, validator, submission) :
            /\ tracker' = r.tracker
            /\ validator' = r.validator
            /\ reply' = [op |-> "process_submission", id |-> submission.id,
                         score |-> submission.score, title |-> submission.title,
                         ret |-> r.ret]
    /\ UNCHANGED outsideReddit

NextReddit ==
    \/ CallIsValidTicker
    \/ CallProcessSubmission

SpecReddit == InitReddit /\ [][NextReddit]_vars

(***************************************************************************)
(* Vocabulary of the tracker properties.                                   *)
(***************************************************************************)
Mentions == tracker.mentions
Stats == tracker.ticker_stats
IsReply(op) == reply.op = op
MentionsOf(t) == {i \in 1..Len(Mentions) : t \in Mentions[i].tickers}
InCache(c) == c.named

(***************************************************************************)
(* C26 as stated: after any sequence of is_valid_ticker calls, calls in    *)
(* which the lookup raises included, neither cache holds more than         *)
(* cache_size_limit (1000) entries and no ticker is in both caches.        *)
(***************************************************************************)
C26_CachesBounded ==
    /\ CacheLen(validator.valid_cache) <= CacheSizeLimit
    /\ CacheLen(validator.invalid_cache) <= CacheSizeLimit
    /\ InCache(validator.valid_cache) \cap InCache(validator.invalid_cache) = {}

(***************************************************************************)
(* C28: is_valid_ticker returns False for a blacklisted symbol whatever    *)
(* the caches hold, and after any sequence of process_submission calls no  *)
(* mention's tickers and no key of ticker_stats is a blacklisted symbol.   *)
(***************************************************************************)
C28_BlacklistNeverReported ==
    /\ (IsReply("is_valid_ticker") /\ Upper(reply.ticker) \in TICKER_BLACKLIST)
          => reply.ret = FALSE
    /\ \A i \in 1..Len(Mentions) : Mentions[i].tickers \cap TICKER_BLACKLIST = {}
    /\ DOMAIN Stats \cap TICKER_BLACKLIST = {}

C28_Witness ==
    /\ IsReply("process_submission")
    /\ \E i \in 1..Len(reply.title) : reply.title[i].word \in TICKER_BLACKLIST
    /\ reply.ret # None
    /\ reply.ret.tickers = {"GME"}
    /\ CacheLen(validator.valid_cache) = CacheSizeLimit

(***************************************************************************)
(* C29: after any sequence of process_submission calls (a post may come    *)
(* again, with another score) no two records of mentions share a post_id,  *)
(* and for every ticker t ticker_stats[t].count is the number of mentions  *)
(* whose tickers contain t.                                                *)
(***************************************************************************)
C29_MentionsConsistent ==
    /\ \A i, j \in 1..Len(Mentions) :
          Mentions[i].post_id = Mentions[j].post_id => i = j
    /\ \A t \in DOMAIN Stats : Stats[t].count = Cardinality(MentionsOf(t))
    /\ \A i \in 1..Len(Mentions) : Mentions[i].tickers \subseteq DOMAIN Stats

\* a post that is in mentions has come again with another score that passes
\* MIN_SCORE, and the call has returned None
C29_Witness ==
    /\ IsReply("process_submission")
    /\ reply.ret = None
    /\ reply.score >= MIN_SCORE
    /\ \E i \in 1..Len(Mentions) :
          /\ Mentions[i].post_id = reply.id
          /\ Mentions[i].score # reply.score
          /\ \A t \in Mentions[i].tickers : Stats[t].count = Cardinality(MentionsOf(t))

(***************************************************************************)
(* The watchlist endpoints (src/backend/app/users/routes.py) on the        *)
(* watchlists table (src/backend/app/models.py).  Every request runs on    *)
(* its own database session; the steps of a handler are its statements on  *)
(* the database, and the statements of requests served at the same time    *)
(* interleave.  The table declares no unique constraint.  A row takes the  *)
(* number of the request that inserted it as its id; an Optional[int] is   *)
(* the empty tuple (None) or the tuple of the integer.                     *)
(***************************************************************************)
MaxRequests == 3

UserIds == {"u1", "u2"}
RawTickers == {"aapl", "AAPL", "MSFT"}
Positions == {None, <<7>>}

Row(id, user_id, ticker, position) ==
    [id |-> id, user_id |-> user_id, ticker |-> ticker, position |-> position]

\* filter(Watchlist.user_id == ..., Watchlist.ticker == ...)
Matching(table, user_id, ticker) ==
    {r \in table : r.user_id = user_id /\ r.ticker = ticker}

\* .first() of a query without ORDER BY: one of the matching rows, or nothing
First(matching) == IF matching = {} THEN {0} ELSE {r.id : r \in matching}

\* filter(Watchlist.user_id == ...).count()
CountOf(table, user_id) == Cardinality({r \in table : r.user_id = user_id})

Request(kind, user_id, ticker, position) ==
    [kind |-> kind, user_id |-> user_id, ticker |-> Upper(ticker),
     position |-> position, pc |-> "query", found |-> 0, loaded |-> None,
     new_position |-> None, status |-> 0]

\* a request arrives: the handler has upper-cased the ticker
Receive ==
    /\ Len(requests) < MaxRequests
    /\ \E u \in UserIds, t \in RawTickers :
         \/ \E p \in Positions : requests' = Append(requests, Request("add", u, t, p))
         \/ requests' = Append(requests, Request("remove", u, t, None))
    /\ UNCHANGED <<rows, outsideWatchlist>>

\* the position the session has loaded for the row with this id
PositionOf(table, id) == (CHOOSE r \in table : r.id = id).position

\* existing = db.query(...).first(), and the branch taken on it: the session
\* keeps the row as loaded; without a row the position is body.position
\* when one is given
AddQuery(i) ==
    /\ requests[i].kind = "add" /\ requests[i].pc = "query"
    /\ \E id \in First(Matching(rows, requests[i].user_id, requests[i].ticker)) :
         requests' = [requests EXCEPT ![i].found = id,
                        ![i].loaded = IF id = 0 THEN None ELSE PositionOf(rows, id),
                        ![i].new_position = requests[i].position,
                        ![i].pc = IF id = 0
                                  THEN IF requests[i].position = None THEN "count"
                                       ELSE "insert"
                                  ELSE IF requests[i].position # None THEN "update"
                                  ELSE "done",
                        ![i].status = IF id # 0 /\ requests[i].position = None
                                      THEN 200 ELSE 0]
    /\ UNCHANGED <<rows, outsideWatchlist>>

\* existing.position = body.position; db.commit(): an assignment of the value
\* the session has loaded changes nothing and no UPDATE is emitted; otherwise
\* the UPDATE of a row that another request has deleted matches nothing and
\* the commit raises
AddUpdate(i) ==
    /\ requests[i].kind = "add" /\ requests[i].pc = "update"
    /\ LET id == requests[i].found
           live == \E r \in rows : r.id = id
           changed == requests[i].position # requests[i].loaded
       IN  /\ rows' = IF changed
                      THEN {IF r.id = id THEN [r EXCEPT !.position = requests[i].position]
                            ELSE r : r \in rows}
                      ELSE rows
           /\ requests' = [requests EXCEPT ![i].pc = "done",
                              ![i].status = IF changed /\ ~live THEN 500 ELSE 200]
    /\ UNCHANGED outsideWatchlist

\* max_position = db.query(...).count(); position = max_position
AddCount(i) ==
    /\ requests[i].kind = "add" /\ requests[i].pc = "count"
    /\ requests' = [requests EXCEPT
                      ![i].new_position = <<CountOf(rows, requests[i].user_id)>>,
                      ![i].pc = "insert"]
    /\ UNCHANGED <<rows, outsideWatchlist>>

\* db.add(new_item); db.commit()
AddInsert(i) ==
    /\ requests[i].kind = "add" /\ requests[i].pc = "insert"
    /\ rows' = rows \cup {Row(i, requests[i].user_id, requests[i].ticker,
                                requests[i].new_position)}
    /\ requests' = [requests EXCEPT ![i].pc = "done", ![i].status = 200]
    /\ UNCHANGED outsideWatchlist

\* item = db.query(...).first(); 404 when there is none
RemoveQuery(i) ==
    /\ requests[i].kind = "remove" /\ requests[i].pc = "query"
    /\ \E id \in First(Matching(rows, requests[i].user_id, requests[i].ticker)) :
         requests' = [requests EXCEPT ![i].found = id,
                        ![i].pc = IF id = 0 THEN "done" ELSE "delete",
                        ![i].status = IF id = 0 THEN 404 ELSE 0]
    /\ UNCHANGED <<rows, outsideWatchlist>>

\* db.delete(item); db.commit(): the DELETE of a row that another request
\* has deleted matches nothing, which SQLAlchemy reports as a warning only,
\* and the commit succeeds
RemoveDelete(i) ==
    /\ requests[i].kind = "remove" /\ requests[i].pc = "delete"
    /\ rows' = {r \in rows : r.id # requests[i].found}
    /\ requests' = [requests EXCEPT ![i].pc = "done", ![i].status = 200]
    /\ UNCHANGED outsideWatchlist

InitWatchlist ==
    /\ EngineNew
    /\ RedditNew
    /\ SchwabNew
    /\ ExecutorNew
    /\ WatchlistNew

NextWatchlist ==
    \/ Receive
    \/ \E i \in 1..Len(requests) : AddQuery(i)
    \/ \E i \in 1..Len(requests) : AddUpdate(i)
    \/ \E i \in 1..Len(requests) : AddCount(i)
    \/ \E i \in 1..Len(requests) : AddInsert(i)
    \/ \E i \in 1..Len(requests) : RemoveQuery(i)
    \/ \E i \in 1..Len(requests) : RemoveDelete(i)

SpecWatchlist == InitWatchlist /\ [][NextWatchlist]_vars

(***************************************************************************)
(* C25 as stated: after any sequence or concurrent interleaving of         *)
(* add_to_watchlist and remove_from_watchlist requests the table holds at  *)
(* most one row per (user_id, ticker); an add that finds the ticker        *)
(* inserts no row.                                                         *)
(***************************************************************************)
C25_OneRowPerTicker ==
    /\ \A r1, r2 \in rows :
          (r1.user_id = r2.user_id /\ r1.ticker = r2.ticker) => r1 = r2
    /\ \A i \in 1..Len(requests) :
          (requests[i].kind = "add" /\ requests[i].found # 0)
              => ~(\E r \in rows : r.id = i)

(***************************************************************************)
(* The Schwab token manager (src/backend/app/schwab/token_manager.py) and  *)
(* the client that uses it (src/backend/app/schwab/client.py).             *)
(*                                                                         *)
(* Threads serve requests: each obtains the client, hence the manager,     *)
(* through the module-level singletons and calls _make_request.  An access *)
(* token is the index of its real expiry time in server, the sequence of   *)
(* the tokens the authorization server has issued; the token file holds    *)
(* the tokens and expires_in but no issue time.  The clock counts seconds. *)
(* src/get_refresh_token.py, run by hand beside the server, refreshes the  *)
(* token file on its own.  A write of the token file is two steps:         *)
(* open(path, "w") empties it and json.dump fills it; whoever loads the    *)
(* file in between finds no JSON document, and two writers that have the   *)
(* file open at once write over each other.                                *)
(***************************************************************************)
ThreadIds == {1, 2}
\* the calls of service functions and runs of get_refresh_token.py a behaviour
\* starts
MaxCalls == 2
MaxTicks == 1
TickSeconds == 1800

RefreshBuffer == 300
DefaultExpiresIn == 1800
MaxRetries == 3

\* the outcome of a POST or GET that raised httpx.HTTPError instead of answering
HTTPError == -1

Tokens(access_token) == [access_token |-> access_token, expires_in |-> DefaultExpiresIn]

\* TokenManager.__init__
ManagerNew == [tokens |-> NoTokens, expires_at |-> None, forced |-> FALSE, lock |-> 0]

ThreadNew ==
    [pc |-> "client_check", tm |-> 0, second |-> FALSE, attempt |-> 0,
     resp |-> 0, new_tokens |-> NoTokens, due |-> FALSE, waited |-> FALSE,
     got |-> <<>>, result |-> "none"]

\* the body of _needs_refresh: no expiry known, or expiry within the buffer
RefreshDue(m, t) == m.expires_at = None \/ t + RefreshBuffer >= m.expires_at[1]

\* self._needs_refresh(): the method, or the lambda: True the client has put
\* in its place on the instance
NeedsRefresh(m, t) == m.forced \/ RefreshDue(m, t)

\* _load_tokens_from_file on an existing file
Loaded(m, file, t) == [m EXCEPT !.tokens = file, !.expires_at = <<t + file.expires_in>>]

\* _update_tokens(new_tokens) up to the save: the tokens of the response,
\* their life counted from now
Updated(m, new_tokens, t) ==
    [m EXCEPT !.tokens = new_tokens, !.expires_at = <<t + new_tokens.expires_in>>]

\* _load_tokens_from_file raises SchwabAuthError on this file: it is not
\* there, or json.load fails on it (self._tokens is not assigned)
Unreadable(file) == file \in {NoTokens, Truncated, Garbled}

\* json.dump(document, f) and the close, by a writer that has opened the
\* file: the bytes go from offset 0 over what the file holds.  The file is
\* empty unless another writer has dumped since this one opened it; over
\* such a document a shorter one leaves the other's tail behind
Dumped(file, document) ==
    IF file = Truncated THEN {document} ELSE {document, Garbled}

\* a failed refresh that forgets the tokens it held.
RefreshFailedCleared(m) == [m EXCEPT !.tokens = NoTokens, !.expires_at = None, !.lock = 0]

\* _refresh_token raising SchwabAuthError: the lock released, nothing else
RefreshFailed(m) == [m EXCEPT !.lock = 0]

\* one attempt too many before giving up: the loop ends without a response.
AfterAttemptOffByOne(attempt, outcome) ==
    IF outcome # HTTPError THEN [pc |-> "refreshed", attempt |-> attempt + 1, resp |-> outcome]
    ELSE IF attempt = MaxRetries
         THEN [pc |-> "raised", attempt |-> attempt + 1, resp |-> HTTPError]
    ELSE IF attempt + 1 < MaxRetries
         THEN [pc |-> "post", attempt |-> attempt + 1, resp |-> 0]
    ELSE [pc |-> "refreshed", attempt |-> attempt + 1, resp |-> 0]

\* one pass of the loop of _make_refresh_request, attempt being the loop
\* variable: return the response, re-raise on the last attempt, or go on
AfterAttempt(attempt, outcome) ==
    IF outcome # HTTPError THEN [pc |-> "refreshed", attempt |-> attempt + 1, resp |-> outcome]
    ELSE IF attempt = MaxRetries - 1
         THEN [pc |-> "raised", attempt |-> attempt + 1, resp |-> HTTPError]
    ELSE [pc |-> "post", attempt |-> attempt + 1, resp |-> 0]

RefreshOutcomes == {200, 401, 500, HTTPError}

\* the stages of a thread inside _refresh_token, the manager's lock held
RefreshStages == {"post", "refreshed", "raised", "save"}

Finished(th, result) ==
    [th EXCEPT !.pc = "done", !.result = result, !.got = <<>>, !.attempt = 0,
               !.resp = 0, !.new_tokens = NoTokens, !.due = FALSE, !.second = FALSE,
               !.waited = FALSE]

\* a thread's first call of a service function begins: client =
\* get_schwab_client().  Line 372: if _schwab_client is None; when it is
\* not, line 375 returns what the global holds
ClientCheck(t) ==
    /\ threads[t].pc = "client_check"
    /\ started < MaxCalls
    /\ started' = started + 1
    /\ threads' = [threads EXCEPT ![t] =
                     IF schwab_client # 0
                     THEN [@ EXCEPT !.pc = "idle", !.tm = schwab_client]
                     ELSE [@ EXCEPT !.pc = "manager_check"]]
    /\ UNCHANGED <<clock, token_file, server, managers, token_manager, schwab_client, script>>
    /\ UNCHANGED outsideSchwab

\* SchwabClient.__init__ -> get_token_manager, line 288: if _token_manager is
\* None; when it is not, line 304 returns what the global holds
ManagerCheck(t) ==
    /\ threads[t].pc = "manager_check"
    /\ threads' = [threads EXCEPT ![t] =
                     IF token_manager # 0
                     THEN [@ EXCEPT !.pc = "client_assign", !.tm = token_manager]
                     ELSE [@ EXCEPT !.pc = "manager_create"]]
    /\ UNCHANGED <<clock, token_file, server, managers, token_manager, schwab_client, script, started>>
    /\ UNCHANGED outsideSchwab

\* get_token_manager, line 298: _token_manager = TokenManager(...)
ManagerCreate(t) ==
    /\ threads[t].pc = "manager_create"
    /\ managers' = Append(managers, ManagerNew)
    /\ token_manager' = Len(managers) + 1
    /\ threads' = [threads EXCEPT ![t].pc = "manager_return"]
    /\ UNCHANGED <<clock, token_file, server, schwab_client, script, started>>
    /\ UNCHANGED outsideSchwab

\* get_token_manager, line 304: return _token_manager, the global read again;
\* SchwabClient.__init__ keeps it as self.token_manager
ManagerReturn(t) ==
    /\ threads[t].pc = "manager_return"
    /\ threads' = [threads EXCEPT ![t].pc = "client_assign", ![t].tm = token_manager]
    /\ UNCHANGED <<clock, token_file, server, managers, token_manager, schwab_client, script, started>>
    /\ UNCHANGED outsideSchwab

\* get_schwab_client, line 373: _schwab_client = SchwabClient(), the client
\* the thread has just built
ClientAssign(t) ==
    /\ threads[t].pc = "client_assign"
    /\ schwab_client' = threads[t].tm
    /\ threads' = [threads EXCEPT ![t].pc = "client_return"]
    /\ UNCHANGED <<clock, token_file, server, managers, token_manager, script, started>>
    /\ UNCHANGED outsideSchwab

\* get_schwab_client, line 375: return _schwab_client, the global read again
ClientReturn(t) ==
    /\ threads[t].pc = "client_return"
    /\ threads' = [threads EXCEPT ![t].pc = "idle", ![t].tm = schwab_client]
    /\ UNCHANGED <<clock, token_file, server, managers, token_manager, schwab_client, script, started>>
    /\ UNCHANGED outsideSchwab

\* a service function: client = get_schwab_client(); client._make_request(...)
\* with retry_on_401 = True.  In the thread's first call the client is the
\* one get_schwab_client has just returned; a later call of the thread begins
\* here and takes the global's client.
StartRequest(t) ==
    /\ threads[t].pc \in {"idle", "done"}
    /\ threads[t].pc = "done" => started < MaxCalls
    /\ started' = IF threads[t].pc = "done" THEN started + 1 ELSE started
    /\ threads' = [threads EXCEPT ![t] =
                     [@ EXCEPT !.pc = "headers",
                               !.tm = IF threads[t].pc = "idle" THEN @ ELSE schwab_client,
                               !.result = "none"]]
    /\ UNCHANGED <<clock, token_file, server, managers, token_manager, schwab_client, script>>
    /\ UNCHANGED outsideSchwab

\* _get_headers -> get_valid_token up to the refresh request: take the lock,
\* load the tokens if there are none, and either return the access token or
\* start _refresh_token
GetValidToken(t) ==
    /\ threads[t].pc = "headers"
    /\ LET i == threads[t].tm
           m == managers[i]
       IN  /\ m.lock = 0
           /\ IF m.tokens = NoTokens /\ Unreadable(token_file)
              THEN /\ threads' = [threads EXCEPT ![t] = Finished(@, "SchwabAuthError")]
                   /\ UNCHANGED managers
              ELSE LET loaded == IF m.tokens = NoTokens
                                 THEN Loaded(m, token_file, clock) ELSE m
                   IN  IF NeedsRefresh(loaded, clock)
                       THEN /\ managers' = [managers EXCEPT ![i] =
                                              [loaded EXCEPT !.lock = t]]
                            /\ threads' = [threads EXCEPT ![t] =
                                             [@ EXCEPT !.pc = "post", !.attempt = 0, !.resp = 0,
                                                       !.due = RefreshDue(loaded, clock)]]
                       ELSE /\ managers' = [managers EXCEPT ![i] = loaded]
                            /\ threads' = [threads EXCEPT ![t] =
                                             [@ EXCEPT !.pc = "send", !.waited = FALSE,
                                                !.got = <<loaded.tokens.access_token, clock>>]]
    /\ UNCHANGED <<clock, token_file, server, token_manager, schwab_client, script, started>>
    /\ UNCHANGED outsideSchwab

\* _make_refresh_request: one client.post.  A 200 carries the tokens the
\* server has issued at this moment.
RefreshAttempt(t) ==
    /\ threads[t].pc = "post"
    /\ \E outcome \in RefreshOutcomes :
         LET next == AfterAttempt(threads[t].attempt, outcome)
             issued == next.pc = "refreshed" /\ next.resp = 200
         IN  /\ threads' = [threads EXCEPT ![t] =
                              [@ EXCEPT !.pc = next.pc, !.attempt = next.attempt,
                                        !.resp = next.resp,
                                        !.new_tokens = IF issued THEN Tokens(Len(server) + 1)
                                                       ELSE NoTokens]]
             /\ server' = IF issued THEN Append(server, clock + DefaultExpiresIn)
                          ELSE server
    /\ UNCHANGED <<clock, token_file, managers, token_manager, schwab_client, script, started>>
    /\ UNCHANGED outsideSchwab

\* the rest of _refresh_token: on 200 _update_tokens stores the tokens of
\* the response, counts their life from now and opens the token file for
\* writing, which empties it; otherwise SchwabAuthError is raised and the
\* lock released.
FinishRefresh(t) ==
    /\ threads[t].pc \in {"refreshed", "raised"}
    /\ LET i == threads[t].tm
           m == managers[i]
       IN  IF threads[t].pc = "refreshed" /\ threads[t].resp = 200
           THEN /\ managers' = [managers EXCEPT ![i] =
                                  Updated(m, threads[t].new_tokens, clock)]
                /\ token_file' = Truncated
                /\ threads' = [threads EXCEPT ![t] =
                                 [@ EXCEPT !.pc = "save", !.new_tokens = NoTokens,
                                           !.attempt = 0, !.resp = 0]]
           ELSE /\ managers' = [managers EXCEPT ![i] = RefreshFailed(m)]
                /\ threads' = [threads EXCEPT ![t] = Finished(@, "SchwabAuthError")]
                /\ UNCHANGED token_file
    /\ UNCHANGED <<clock, server, token_manager, schwab_client, script, started>>
    /\ UNCHANGED outsideSchwab

\* _save_tokens_to_file after the open: json.dump(self._tokens, f) and the
\* close, then get_valid_token returns the access token and releases the
\* lock.  The threads waiting for this manager's lock are marked.
SaveTokensToFile(t) ==
    /\ threads[t].pc = "save"
    /\ LET i == threads[t].tm
           m == managers[i]
           waiting == {u \in DOMAIN threads :
                          u # t /\ threads[u].pc = "headers" /\ threads[u].tm = i}
       IN  /\ token_file' \in Dumped(token_file, m.tokens)
           /\ managers' = [managers EXCEPT ![i] = [m EXCEPT !.lock = 0]]
           /\ threads' = [u \in DOMAIN threads |->
                            IF u = t
                            THEN [threads[u] EXCEPT !.pc = "send", !.waited = FALSE,
                                    !.due = FALSE,
                                    !.got = <<m.tokens.access_token, clock>>]
                            ELSE IF u \in waiting
                            THEN [threads[u] EXCEPT !.waited = TRUE]
                            ELSE threads[u]]
    /\ UNCHANGED <<clock, server, token_manager, schwab_client, script, started>>
    /\ UNCHANGED outsideSchwab

\* what the API answers to a request that carries the token: 401 when the
\* token has expired, otherwise 200 or an error (the API of the model never
\* answers 429, so the rate-limit branch of _make_request is not taken)
Statuses(th) == IF server[th.got[1]] <= clock THEN {401} ELSE {200, 500}

\* client.request and what _make_request does with the response
Send(t) ==
    /\ threads[t].pc = "send"
    /\ \E status \in Statuses(threads[t]) :
         LET th == threads[t]
             i == th.tm
         IN  IF status = 401 /\ ~th.second
             THEN \* self.token_manager._needs_refresh = lambda: True, and retry
                  /\ managers' = [managers EXCEPT ![i].forced = TRUE]
                  /\ threads' = [threads EXCEPT ![t] =
                                   [@ EXCEPT !.pc = "headers", !.second = TRUE,
                                             !.got = <<>>]]
             ELSE /\ threads' = [threads EXCEPT ![t] =
                                   Finished(@, IF status >= 400 THEN "SchwabAPIError"
                                               ELSE "ok")]
                  /\ UNCHANGED managers
    /\ UNCHANGED <<clock, token_file, server, token_manager, schwab_client, script, started>>
    /\ UNCHANGED outsideSchwab

\* what requests.post of get_refresh_token.py ends with: the tokens, or an
\* error status
ScriptOutcomes == {200, 401}

\* src/get_refresh_token.py, run beside the server: refresh_tokens up to the
\* request (lines 24-46).  load_tokens raises when the token file is not
\* there or holds no JSON document
ScriptLoad ==
    /\ script.pc = "idle"
    /\ started < MaxCalls
    /\ started' = started + 1
    /\ ~Unreadable(token_file)
    /\ script' = [script EXCEPT !.pc = "post"]
    /\ UNCHANGED <<clock, token_file, server, managers, token_manager, schwab_client, threads>>
    /\ UNCHANGED outsideSchwab

\* refresh_tokens, lines 47-60: the response of requests.post arrives.  A
\* response other than 200 ends the run with nothing changed.
ScriptPost ==
    /\ script.pc = "post"
    /\ \E outcome \in ScriptOutcomes :
         IF outcome = 200
         THEN /\ server' = Append(server, clock + DefaultExpiresIn)
              /\ script' = [pc |-> "save", refresh_token_dict |-> Tokens(Len(server) + 1)]
         ELSE /\ script' = ScriptIdle
              /\ UNCHANGED server
    /\ UNCHANGED <<clock, token_file, managers, token_manager, schwab_client, threads, started>>
    /\ UNCHANGED outsideSchwab

\* save_tokens(refresh_token_dict): open(TOKEN_FILE, "w") empties the file
ScriptOpen ==
    /\ script.pc = "save"
    /\ token_file' = Truncated
    /\ script' = [script EXCEPT !.pc = "dump"]
    /\ UNCHANGED <<clock, server, managers, token_manager, schwab_client, threads, started>>
    /\ UNCHANGED outsideSchwab

\* save_tokens: json.dump(tokens, f) and the close
ScriptSave ==
    /\ script.pc = "dump"
    /\ token_file' \in Dumped(token_file, script.refresh_token_dict)
    /\ script' = ScriptIdle
    /\ UNCHANGED <<clock, server, managers, token_manager, schwab_client, threads, started>>
    /\ UNCHANGED outsideSchwab

\* time passes
TickClock ==
    /\ clock < MaxTicks * TickSeconds
    /\ clock' = clock + TickSeconds
    /\ UNCHANGED <<token_file, server, managers, token_manager, schwab_client, threads, script, started>>
    /\ UNCHANGED outsideSchwab

\* get_token.py has written the token file some time ago (the token it holds
\* has expired, or was issued just now), or never
InitSchwab ==
    /\ EngineNew
    /\ RedditNew
    /\ WatchlistNew
    /\ ExecutorNew
    /\ clock = 0
    /\ \/ token_file = NoTokens /\ server = <<>>
       \/ token_file = Tokens(1) /\ \E expiry \in {0, DefaultExpiresIn} : server = <<expiry>>
    /\ managers = <<>>
    /\ token_manager = 0
    /\ schwab_client = 0
    /\ threads = [t \in ThreadIds |-> ThreadNew]
    /\ script = ScriptIdle
    /\ started = 0

NextSchwab ==
    \/ TickClock
    \/ \E t \in DOMAIN threads : ClientCheck(t)
    \/ \E t \in DOMAIN threads : ManagerCheck(t)
    \/ \E t \in DOMAIN threads : ManagerCreate(t)
    \/ \E t \in DOMAIN threads : ManagerReturn(t)
    \/ \E t \in DOMAIN threads : ClientAssign(t)
    \/ \E t \in DOMAIN threads : ClientReturn(t)
    \/ \E t \in DOMAIN threads : StartRequest(t)
    \/ \E t \in DOMAIN threads : GetValidToken(t)
    \/ \E t \in DOMAIN threads : RefreshAttempt(t)
    \/ \E t \in DOMAIN threads : FinishRefresh(t)
    \/ \E t \in DOMAIN threads : SaveTokensToFile(t)
    \/ \E t \in DOMAIN threads : Send(t)
    \/ ScriptLoad
    \/ ScriptPost
    \/ ScriptOpen
    \/ ScriptSave

SpecSchwab == InitSchwab /\ [][NextSchwab]_vars

(***************************************************************************)
(* Claims about the token manager and the client.                          *)
(***************************************************************************)
Refreshing(t) == threads[t].pc \in RefreshStages

\* the thread has get_valid_token's return value in hand
Holding(t) == threads[t].got # <<>>

\* C22: whenever get_valid_token returns, the token it returns has not
\* expired: its real expiry (issue time + expires_in) is later than the time
\* of the return, the first call after a load from the token file included.
C22_ReturnedTokenValid ==
    \A t \in DOMAIN threads :
        Holding(t) => server[threads[t].got[1]] > threads[t].got[2]

\* C23: across all threads using the client at most one token refresh is in
\* progress at any time, and a caller that arrived while a refresh was in
\* progress waits and reuses the refreshed token: it starts no refresh of
\* its own unless the refreshed token has itself come within the buffer.
C23_OneRefreshAtATime ==
    /\ Cardinality({t \in DOMAIN threads : Refreshing(t)}) <= 1
    /\ \A t \in DOMAIN threads :
           threads[t].waited /\ Refreshing(t) => threads[t].due

\* C24: get_valid_token issues a refresh request only when no expiry is known
\* or now + 300 s >= expires_at, except for the one refresh of the request
\* that has just received a 401: a past 401 does not change the decision of
\* later calls.
C24_RefreshOnlyWhenDue ==
    \A t \in DOMAIN threads :
        Refreshing(t) => threads[t].due \/ threads[t].second

\* C27: _make_refresh_request makes at most max_retries POST attempts: it
\* goes on to another attempt only after an httpx.HTTPError and only while
\* attempts are left, it returns only with a response in hand, and it
\* re-raises only after the last attempt has failed.
C27_RefreshAttemptsBounded ==
    \A t \in DOMAIN threads :
        LET th == threads[t]
        IN  /\ th.attempt <= MaxRetries
            /\ th.pc = "post" => th.attempt < MaxRetries /\ th.resp = 0
            /\ th.pc = "refreshed" =>
                   th.attempt >= 1 /\ th.resp \in RefreshOutcomes \ {HTTPError}
            /\ th.pc = "raised" => th.attempt = MaxRetries /\ th.resp = HTTPError

\* all three attempts failed and the error is re-raised
C27_Witness ==
    \E t \in DOMAIN threads :
        threads[t].pc = "raised" /\ threads[t].attempt = MaxRetries

\* the step in which thread t's refresh fails: _refresh_token raises
RefreshFails(t) ==
    /\ threads[t].pc \in {"refreshed", "raised"}
    /\ threads'[t].pc = "done"

\* C30: a failed refresh (401, another non-200 status, or a network error
\* after all retries) raises SchwabAuthError and leaves _tokens, _expires_at
\* and the token file unchanged: the call returns no token and the next call
\* finds that a refresh is needed again.
C30_FailedRefreshKeepsTokens ==
    [][\A t \in DOMAIN threads :
          RefreshFails(t) =>
              LET i == threads[t].tm
              IN  /\ threads'[t].result = "SchwabAuthError"
                  /\ ~Holding(t)'
                  /\ managers'[i].tokens = managers[i].tokens
                  /\ managers'[i].expires_at = managers[i].expires_at
                  /\ token_file' = token_file
                  /\ NeedsRefresh(managers'[i], clock')]_vars

\* a call has ended in SchwabAuthError after a refresh of loaded tokens
C30_Witness ==
    \E t \in DOMAIN threads :
        /\ threads[t].pc = "done"
        /\ threads[t].result = "SchwabAuthError"
        /\ managers[threads[t].tm].tokens # NoTokens
        /\ managers[threads[t].tm].lock = 0

(***************************************************************************)
(* Concurrent calls of the engine (src/backend/app/chat/context_provider.py *)
(* lines 49-63): get_stock_context hands get_technical_indicators(ticker,  *)
(* "3mo") to the default executor, so calls for different tickers run on   *)
(* separate threads.  provider is what yfinance returns for each ticker;   *)
(* a call fetches its history into a local and computes its report from    *)
(* that local, and the steps of different calls interleave in any order.   *)
(***************************************************************************)
Tickers == {"AAPL", "MSFT"}
ExecutorPeriod == "3mo"
ExecutorLens == {0, 14, MaxShort}
ExecutorHistories == {[i \in 1..n |-> PatternBar(p, i)] : p \in Patterns, n \in ExecutorLens}
ExecutorFaults == {"none", "rsi"}

\* a call submitted and not started; beside is the set of the calls that were
\* in flight when this one computed its report
CallNew(fault, rounding) ==
    [pc |-> "start", fault |-> fault, rounding |-> rounding, hist |-> <<>>, beside |-> {},
     ret |-> Idle]

\* the history kept where every call in flight reads it.
FetchedShared(cs, t, h) ==
    [u \in DOMAIN cs |-> [cs[u] EXCEPT !.hist = h,
                                       !.pc = IF u = t THEN "fetched" ELSE @]]

\* hist = stock.history(period=period): a local of the call
Fetched(cs, t, h) == [cs EXCEPT ![t].hist = h, ![t].pc = "fetched"]

Fetch(t) ==
    /\ calls[t].pc = "start"
    /\ calls' = Fetched(calls, t, provider[t])
    /\ UNCHANGED provider
    /\ UNCHANGED outsideExecutor

\* the rest of get_technical_indicators, on the call's own hist
Compute(t) ==
    /\ calls[t].pc = "fetched"
    /\ calls' = [calls EXCEPT
                   ![t].pc = "done",
                   ![t].beside = {u \in DOMAIN calls \ {t} : calls[u].pc = "fetched"},
                   ![t].ret = GetTechnicalIndicators(calls[t].hist, t, ExecutorPeriod,
                                                     calls[t].fault, now,
                                                     calls[t].rounding)]
    /\ UNCHANGED provider
    /\ UNCHANGED outsideExecutor

InitExecutor ==
    /\ EngineNew
    /\ RedditNew
    /\ WatchlistNew
    /\ SchwabNew
    /\ provider \in [Tickers -> ExecutorHistories]
    /\ \E fault \in [Tickers -> ExecutorFaults], rounding \in [Tickers -> Roundings] :
         /\ \A t \in Tickers : rounding[t] \in RoundingsOf(Column(provider[t], "Close"))
         /\ calls = [t \in Tickers |-> CallNew(fault[t], rounding[t])]

NextExecutor ==
    \/ \E t \in Tickers : Fetch(t)
    \/ \E t \in Tickers : Compute(t)

SpecExecutor == InitExecutor /\ [][NextExecutor]_vars

\* the report the call for ticker t produces when it runs alone
RunAlone(t) ==
    GetTechnicalIndicators(provider[t], t, ExecutorPeriod, calls[t].fault, now,
                           calls[t].rounding)

\* C21: concurrent calls of the engine for different tickers, interleaved in
\* any order, each work on their own history and each produce exactly the
\* report the same call produces when run alone.
C21_ConcurrentCallsIndependent ==
    \A t \in DOMAIN calls :
        /\ calls[t].pc # "start" => calls[t].hist = provider[t]
        /\ calls[t].pc = "done" => calls[t].ret = RunAlone(t)

\* a call has computed a report while the call for the other ticker, whose
\* history differs, was in flight
C21_Witness ==
    \E t \in DOMAIN calls :
        /\ calls[t].pc = "done"
        /\ HasTimestamp(calls[t].ret)
        /\ \E u \in calls[t].beside : provider[u] # provider[t]

=============================================================================
